---- MODULE Spec2Model ----
(***************************************************************************)
(* Model of the supervek-seo-app blog generator:                           *)
(*   app/utils/validation.server.ts   (src/unnamed/part_008)               *)
(*   app/utils/rateLimit.server.ts    (src/unnamed/part_007)               *)
(*   app/routes/app.generate-blog.tsx                                      *)
(*                                                                         *)
(* Text is a sequence of chunks.  A chunk is a one-character string, or a  *)
(* literal of the program (a message, a template segment, an enumeration   *)
(* value) kept whole because the code never looks inside it.               *)
(***************************************************************************)
EXTENDS Integers, Sequences, FiniteSets, TLC

VARIABLES
    log,             \* limiter harness: what the checks of each key were observed to return
    call,            \* validator harness: the validator applied, its argument, its outcome
    now,             \* wall clock, ms
    rateLimitStore,  \* rateLimit.server.ts: key -> record
    blogs,           \* content store: ids of the containers, in listing order
    articles,        \* content store: the articles created
    req,             \* request slot -> the state of the action's invocation
    db,              \* database: the BlogTopicResearch rows and the KeywordSuggestionCache rows
    job              \* request slot -> the state of the research-topics invocation

vars == <<log, call, now, rateLimitStore, blogs, articles, req, db, job>>

(***************************************************************************)
(* Bounds of the model                                                     *)
(***************************************************************************)
MaxLen == 3          \* longest enumerated keyword / secondary-keywords input
MaxNumLen == 4       \* longest enumerated wordCount input
MaxWrap == 1         \* most pieces before, and after, the braces of a provider text
MaxCore == 3         \* most pieces in the brace region of a provider text
MaxTicks == 3        \* most advances of the clock in the limiter harness
MaxOver == 1         \* how far past its maximum a record's count is followed
MaxTitle == 4        \* longest enumerated selectedTitle
MaxRequests == 11    \* most requests served one after the other
MaxCreated == 1      \* most articles in the store when a further request is served

(***************************************************************************)
(* Text helpers                                                            *)
(***************************************************************************)
\* formData.get() of a field the form does not carry
NULL == <<"<null>">>

Strs(A, n) == UNION {[1..k -> A] : k \in 0..n}

Rep(c, n) == [i \in 1..n |-> c]

LowerSeq == <<"a", "b", "c", "d", "e", "f", "g", "h", "i", "j", "k", "l", "m",
             "n", "o", "p", "q", "r", "s", "t", "u", "v", "w", "x", "y", "z">>
UpperSeq == <<"A", "B", "C", "D", "E", "F", "G", "H", "I", "J", "K", "L", "M",
             "N", "O", "P", "Q", "R", "S", "T", "U", "V", "W", "X", "Y", "Z">>
Lower == {LowerSeq[i] : i \in 1..Len(LowerSeq)}
Upper == {UpperSeq[i] : i \in 1..Len(UpperSeq)}
Digits == {"0", "1", "2", "3", "4", "5", "6", "7", "8", "9"}
\* what String.prototype.trim removes and the regular expression class \s matches
WhiteSpace == {" ", "\n", "\t", "\r"}

RECURSIVE TrimStart(_)
TrimStart(s) ==
    IF s # <<>> /\ Head(s) \in WhiteSpace THEN TrimStart(Tail(s)) ELSE s

RECURSIVE TrimEnd(_)
TrimEnd(s) ==
    IF s # <<>> /\ s[Len(s)] \in WhiteSpace
    THEN TrimEnd(SubSeq(s, 1, Len(s) - 1))
    ELSE s

Trim(s) == TrimEnd(TrimStart(s))

DigitVal(c) ==
    CASE c = "0" -> 0 [] c = "1" -> 1 [] c = "2" -> 2 [] c = "3" -> 3
      [] c = "4" -> 4 [] c = "5" -> 5 [] c = "6" -> 6 [] c = "7" -> 7
      [] c = "8" -> 8 [] c = "9" -> 9

DigitChar(d) ==
    CASE d = 0 -> "0" [] d = 1 -> "1" [] d = 2 -> "2" [] d = 3 -> "3"
      [] d = 4 -> "4" [] d = 5 -> "5" [] d = 6 -> "6" [] d = 7 -> "7"
      [] d = 8 -> "8" [] d = 9 -> "9"

\* `${n}` of a number
RECURSIVE NumToStr(_)
NumToStr(n) ==
    IF n < 0 THEN <<"-">> \o NumToStr(0 - n)
    ELSE IF n < 10 THEN <<DigitChar(n)>>
    ELSE NumToStr(n \div 10) \o <<DigitChar(n % 10)>>

\* `${v}` of a form value
Interp(v) == IF v = NULL THEN <<"null">> ELSE v

(***************************************************************************)
(* validation.server.ts                                                    *)
(***************************************************************************)
MAX_KEYWORD_LENGTH == 100
MAX_SECONDARY_LENGTH == 500
MIN_WORDCOUNT == 500
MAX_WORDCOUNT == 5000
VALID_SEARCH_INTENTS == {<<"informational">>, <<"commercial">>, <<"transactional">>}
VALID_TONES == {<<"authoritative">>, <<"casual">>, <<"formal">>, <<"friendly">>}
VALID_AUDIENCE_LEVELS == {<<"beginner">>, <<"intermediate">>, <<"advanced">>}
VALID_COUNTRIES ==
    {<<"US">>, <<"UK">>, <<"CA">>, <<"AU">>, <<"IN">>, <<"DE">>, <<"FR">>, <<"ES">>}

Ok(v) == [ok |-> TRUE, value |-> v, num |-> 0, error |-> <<>>]
OkNum(n) == [ok |-> TRUE, value |-> <<>>, num |-> n, error |-> <<>>]
Throw(msg) == [ok |-> FALSE, value |-> <<>>, num |-> 0, error |-> msg]

\* /^[a-zA-Z0-9\s\-_()]+$/ : the character class
KeywordClass == Lower \cup Upper \cup Digits \cup WhiteSpace \cup {"-", "_", "(", ")"}
\* /^[a-zA-Z0-9\s\-_(),]+$/ : the character class
SecondaryClass == KeywordClass \cup {","}

\* /^[class]+$/.test(s)
TestAll(class, s) == s # <<>> /\ \A i \in 1..Len(s) : s[i] \in class

\* faulty variant of validateKeyword: the length test excludes the limit itself
validateKeyword_OffByOne(keyword) ==
    IF keyword = NULL \/ keyword = <<>>
    THEN Throw(<<"Keyword is required">>)
    ELSE LET trimmed == Trim(keyword) IN
         IF Len(trimmed) = 0 \/ Len(trimmed) >= MAX_KEYWORD_LENGTH
         THEN Throw(<<"Keyword must be 1-">> \o NumToStr(MAX_KEYWORD_LENGTH) \o <<" characters">>)
         ELSE IF ~TestAll(KeywordClass, trimmed)
         THEN Throw(<<"Keyword contains invalid characters">>)
         ELSE Ok(trimmed)

validateKeyword(keyword) ==
    IF keyword = NULL \/ keyword = <<>>
    THEN Throw(<<"Keyword is required">>)
    ELSE LET trimmed == Trim(keyword) IN
         IF Len(trimmed) = 0 \/ Len(trimmed) > MAX_KEYWORD_LENGTH
         THEN Throw(<<"Keyword must be 1-">> \o NumToStr(MAX_KEYWORD_LENGTH) \o <<" characters">>)
         ELSE IF ~TestAll(KeywordClass, trimmed)
         THEN Throw(<<"Keyword contains invalid characters">>)
         ELSE Ok(trimmed)

validateSecondaryKeywords(keywords) ==
    IF keywords = NULL \/ keywords = <<>>
    THEN Ok(<<>>)
    ELSE LET trimmed == Trim(keywords) IN
         IF Len(trimmed) > MAX_SECONDARY_LENGTH
         THEN Throw(<<"Secondary keywords too long (max 500 characters)">>)
         ELSE IF ~TestAll(SecondaryClass, trimmed)
         THEN Throw(<<"Secondary keywords contain invalid characters">>)
         ELSE Ok(trimmed)

validateSearchIntent(intent) ==
    IF intent \notin VALID_SEARCH_INTENTS
    THEN Throw(<<"Invalid search intent: ">> \o Interp(intent))
    ELSE Ok(intent)

validateTone(tone) ==
    IF tone \notin VALID_TONES
    THEN Throw(<<"Invalid tone: ">> \o Interp(tone))
    ELSE Ok(tone)

validateAudienceLevel(level) ==
    IF level \notin VALID_AUDIENCE_LEVELS
    THEN Throw(<<"Invalid audience level: ">> \o Interp(level))
    ELSE Ok(level)

validateCountry(country) ==
    IF country \notin VALID_COUNTRIES
    THEN Throw(<<"Invalid country: ">> \o Interp(country))
    ELSE Ok(country)

\* parseInt(s, 10): leading white space is skipped, one sign is read, then the
\* longest run of decimal digits; what follows the run is ignored.
RECURSIVE DigitRun(_)
DigitRun(s) ==
    IF s # <<>> /\ Head(s) \in Digits THEN <<Head(s)>> \o DigitRun(Tail(s)) ELSE <<>>

RECURSIVE DecVal(_)
DecVal(ds) ==
    IF ds = <<>> THEN 0 ELSE 10 * DecVal(SubSeq(ds, 1, Len(ds) - 1)) + DigitVal(ds[Len(ds)])

NaN == [nan |-> TRUE, n |-> 0]

parseInt(count) ==
    LET s == TrimStart(Interp(count))
        neg == s # <<>> /\ Head(s) = "-"
        body == IF s # <<>> /\ Head(s) \in {"-", "+"} THEN Tail(s) ELSE s
        run == DigitRun(body)
    IN  IF run = <<>> THEN NaN
        ELSE [nan |-> FALSE, n |-> IF neg THEN 0 - DecVal(run) ELSE DecVal(run)]

\* faulty variant of validateWordCount: the lower limit itself is refused
validateWordCount_Exclusive(count) ==
    LET num == parseInt(count) IN
    IF num.nan \/ num.n <= MIN_WORDCOUNT \/ num.n > MAX_WORDCOUNT
    THEN Throw(<<"Word count must be 500-">> \o NumToStr(MAX_WORDCOUNT))
    ELSE OkNum(num.n)

validateWordCount(count) ==
    LET num == parseInt(count) IN
    IF num.nan \/ num.n < MIN_WORDCOUNT \/ num.n > MAX_WORDCOUNT
    THEN Throw(<<"Word count must be 500-">> \o NumToStr(MAX_WORDCOUNT))
    ELSE OkNum(num.n)

(***************************************************************************)
(* The validator harness: one validator applied to one input               *)
(***************************************************************************)
KwChars == {"a", "7", " ", "\n", "-", "(", ",", "<"}
NumChars == {"0", "1", "4", "5", "9", "-", " ", "a"}

\* inputs whose trimmed length sits at a length limit
AtLimit(limit) ==
    {pre \o Rep("a", n) \o post :
        n \in {limit - 1, limit, limit + 1},
        pre \in {<<>>, <<" ">>},
        post \in {<<>>, <<"\n">>, <<"<">>}}

KeywordInputs == {NULL} \cup Strs(KwChars, MaxLen) \cup AtLimit(MAX_KEYWORD_LENGTH)
SecondaryInputs == {NULL} \cup Strs(KwChars, MaxLen) \cup AtLimit(MAX_SECONDARY_LENGTH)
WordCountInputs == {NULL} \cup Strs(NumChars, MaxNumLen)
EnumInputs ==
    {NULL, <<>>, <<"informational">>, <<"casual">>, <<"beginner">>, <<"US">>,
     <<"ES">>, <<"Informational">>, <<"professional">>, <<"general">>, <<"us">>}

NoCall == [fn |-> "none", arg |-> <<>>, done |-> FALSE, out |-> Throw(<<>>)]
Pending(fn, arg) == [fn |-> fn, arg |-> arg, done |-> FALSE, out |-> Throw(<<>>)]

Returned(out) == call' = [call EXCEPT !.done = TRUE, !.out = out]

(***************************************************************************)
(* rateLimit.server.ts                                                     *)
(***************************************************************************)
NoLog == <<>>

Shops == {"shop-a", "shop-b"}
RateActions == {"blog-generation", "research-topics"}
RateKeys == Shops \X RateActions

BLOG_GENERATION_MAX == 10
BLOG_GENERATION_WINDOW_MS == 3600000
RESEARCH_TOPICS_MAX == 2
RESEARCH_TOPICS_WINDOW_MS == 86400000

RATE_LIMITS(action) ==
    IF action = "blog-generation"
    THEN [max |-> BLOG_GENERATION_MAX, windowMs |-> BLOG_GENERATION_WINDOW_MS]
    ELSE [max |-> RESEARCH_TOPICS_MAX, windowMs |-> RESEARCH_TOPICS_WINDOW_MS]

\* rateLimitStore.get(key) of a key the map does not hold
NoRecord == [count |-> 0, resetAt |-> -1]

\* Math.ceil(ms / 1000)
CeilSeconds(ms) == IF ms % 1000 = 0 THEN ms \div 1000 ELSE ms \div 1000 + 1

\* faulty variant of CheckedRecord: a new window ends at once
CheckedRecord_NoWindow(store, shop, action, t) ==
    LET record == store[<<shop, action>>] IN
    IF record = NoRecord \/ record.resetAt < t
    THEN [count |-> 1, resetAt |-> t]
    ELSE [record EXCEPT !.count = @ + 1]

\* The record after `record.count++`.  An unexpired record is the object the
\* map holds, so the increment reaches the map whether or not set() follows.
CheckedRecord(store, shop, action, t) ==
    LET record == store[<<shop, action>>] IN
    IF record = NoRecord \/ record.resetAt < t
    THEN [count |-> 1, resetAt |-> t + RATE_LIMITS(action).windowMs]
    ELSE [record EXCEPT !.count = @ + 1]

\* faulty variant of rateLimitCheck: one check more than max is let through
rateLimitCheck_OffByOne(store, shop, action, t) ==
    LET record == CheckedRecord(store, shop, action, t) IN
    IF record.count > RATE_LIMITS(action).max + 1
    THEN <<"Rate limit exceeded. Try again in ">>
            \o NumToStr(CeilSeconds(record.resetAt - t)) \o <<" seconds.">>
    ELSE <<>>

\* what rateLimitCheck resolves to: a message, or <<>> for null
rateLimitCheck(store, shop, action, t) ==
    LET record == CheckedRecord(store, shop, action, t) IN
    IF record.count > RATE_LIMITS(action).max
    THEN <<"Rate limit exceeded. Try again in ">>
            \o NumToStr(CeilSeconds(record.resetAt - t)) \o <<" seconds.">>
    ELSE <<>>

\* the map after the call
rateLimitStored(store, shop, action, t) ==
    LET old == store[<<shop, action>>]
        record == CheckedRecord(store, shop, action, t)
        fresh == old = NoRecord \/ old.resetAt < t
    IN  IF fresh /\ record.count > RATE_LIMITS(action).max
        THEN store
        ELSE [store EXCEPT ![<<shop, action>>] = record]

(***************************************************************************)
(* app.generate-blog.tsx: the provider's text and the payload in it        *)
(*                                                                         *)
(* A JSON member ("key":value) is one chunk of the text; JSON.parse reads  *)
(* an object as members separated by commas, white space between tokens.   *)
(***************************************************************************)
Undefined == [t |-> "undefined", s |-> <<>>]
JString(s) == [t |-> "string", s |-> s]
JObject == [t |-> "object", s |-> <<>>]
JArray(items) == [t |-> "array", s |-> items]
JTrue == [t |-> "true", s |-> <<>>]

\* !v is false for these values
Truthy(v) == v.t \in {"object", "array", "true"} \/ (v.t = "string" /\ v.s # <<>>)

Members ==
    << [chunk |-> "\"selectedTitle\":\"Hi -- You!\"", key |-> "selectedTitle",
        val |-> JString(<<"H", "i", " ", "-", "-", " ", "Y", "o", "u", "!">>)],
       [chunk |-> "\"selectedTitle\":\"\"", key |-> "selectedTitle",
        val |-> JString(<<>>)],
       [chunk |-> "\"articleContent\":\"<h1>Hi</h1>\"", key |-> "articleContent",
        val |-> JString(<<"<h1>Hi</h1>">>)],
       [chunk |-> "\"content\":\"<p>Hi</p>\"", key |-> "content",
        val |-> JString(<<"<p>Hi</p>">>)],
       [chunk |-> "\"metaDescription\":\"About hi\"", key |-> "metaDescription",
        val |-> JString(<<"About hi">>)],
       [chunk |-> "\"competitiveIntelligence\":{}", key |-> "competitiveIntelligence",
        val |-> JObject],
       [chunk |-> "\"differentiationStrategy\":{}", key |-> "differentiationStrategy",
        val |-> JObject],
       [chunk |-> "\"eeatSignals\":{}", key |-> "eeatSignals", val |-> JObject],
       [chunk |-> "\"technicalSEOChecklist\":{}", key |-> "technicalSEOChecklist",
        val |-> JObject],
       [chunk |-> "\"urlSlug\":\"hi-you\"", key |-> "urlSlug",
        val |-> JString(<<"h", "i", "-", "y", "o", "u">>)],
       [chunk |-> "\"tags\":[\"seo\"]", key |-> "tags", val |-> JArray(<<"seo">>)],
       [chunk |-> "\"isPublished\":true", key |-> "isPublished", val |-> JTrue] >>

MemberChunks == {Members[i].chunk : i \in 1..Len(Members)}
MemberOf(c) == Members[CHOOSE i \in 1..Len(Members) : Members[i].chunk = c]
Keys == {Members[i].key : i \in 1..Len(Members)}

EmptyObject == [k \in Keys |-> Undefined]

\* text.replace(/^```[\w]*\n?/, "")
WordChars == Lower \cup Upper \cup Digits \cup {"_"}

RECURSIVE DropWord(_)
DropWord(s) == IF s # <<>> /\ Head(s) \in WordChars THEN DropWord(Tail(s)) ELSE s

\* the grave accent U+0060, which a string of this module cannot hold
Grave == "<grave>"
Fence == <<Grave, Grave, Grave>>

StripLeadingFence(text) ==
    IF Len(text) >= 3 /\ SubSeq(text, 1, 3) = Fence
    THEN LET rest == DropWord(SubSeq(text, 4, Len(text))) IN
         IF rest # <<>> /\ Head(rest) = "\n" THEN Tail(rest) ELSE rest
    ELSE text

\* .replace(/\n?```$/, "")
StripTrailingFence(text) ==
    LET n == Len(text) IN
    IF n >= 3 /\ SubSeq(text, n - 2, n) = Fence
    THEN IF n >= 4 /\ text[n - 3] = "\n"
         THEN SubSeq(text, 1, n - 4)
         ELSE SubSeq(text, 1, n - 3)
    ELSE text

CleanedText(text) == Trim(StripTrailingFence(StripLeadingFence(text)))

Positions(s, c) == {i \in 1..Len(s) : s[i] = c}
Min(S) == CHOOSE x \in S : \A y \in S : x <= y
Max(S) == CHOOSE x \in S : \A y \in S : x >= y

\* cleanedText.match(/\{[\s\S]*\}$/): <<>> stands for no match
MatchAnchored(s) ==
    LET opening == Positions(s, "{") IN
    IF opening # {} /\ s[Len(s)] = "}" /\ Min(opening) < Len(s)
    THEN SubSeq(s, Min(opening), Len(s))
    ELSE <<>>

\* faulty variant of MatchAnywhere: the lazy pattern /\{[\s\S]*?\}/
MatchAnywhere_Lazy(s) ==
    IF Positions(s, "{") = {} THEN <<>>
    ELSE LET first == Min(Positions(s, "{"))
             closing == {j \in Positions(s, "}") : j > first}
         IN  IF closing = {} THEN <<>> ELSE SubSeq(s, first, Min(closing))

\* cleanedText.match(/\{[\s\S]*\}/)
MatchAnywhere(s) ==
    IF Positions(s, "{") = {} THEN <<>>
    ELSE LET first == Min(Positions(s, "{"))
             closing == {j \in Positions(s, "}") : j > first}
         IN  IF closing = {} THEN <<>> ELSE SubSeq(s, first, Max(closing))

\* faulty variant of JsonMatch: the second pattern is never tried
JsonMatch_AnchoredOnly(s) == MatchAnchored(s)

JsonMatch(s) ==
    LET anchored == MatchAnchored(s) IN
    IF anchored # <<>> THEN anchored ELSE MatchAnywhere(s)

\* JSON.parse of a text that begins with { and ends with }: the object, or the
\* SyntaxError with the position (from 0) of the token that cannot be read.
SyntaxError(i) == [ok |-> FALSE, position |-> i - 1, data |-> EmptyObject]

RECURSIVE ScanObject(_, _, _, _)
ScanObject(js, i, expect, data) ==
    LET c == js[i] IN
    IF c \in WhiteSpace THEN ScanObject(js, i + 1, expect, data)
    ELSE IF c = "}" /\ expect \in {"first", "separator"}
    THEN IF i = Len(js)
         THEN [ok |-> TRUE, position |-> 0, data |-> data]
         ELSE SyntaxError(i + 1)
    ELSE IF c = "," /\ expect = "separator"
    THEN ScanObject(js, i + 1, "member", data)
    ELSE IF c \in MemberChunks /\ expect \in {"first", "member"}
    THEN ScanObject(js, i + 1, "separator",
                    [data EXCEPT ![MemberOf(c).key] = MemberOf(c).val])
    ELSE SyntaxError(i)

JSONparse(js) == ScanObject(js, 2, "first", EmptyObject)

\* faulty variant of requiredFields: the tags are required as well
requiredFields_WithTags ==
    <<"selectedTitle", "articleContent", "metaDescription", "competitiveIntelligence",
      "differentiationStrategy", "eeatSignals", "technicalSEOChecklist", "tags">>

requiredFields ==
    <<"selectedTitle", "articleContent", "metaDescription", "competitiveIntelligence",
      "differentiationStrategy", "eeatSignals", "technicalSEOChecklist">>

\* faulty variant of MissingFields: a body under the key content stands in
\* for articleContent before the fields are checked
MissingFields_ContentFallback(data) ==
    SelectSeq(requiredFields,
              LAMBDA f : ~Truthy(data[f])
                         /\ ~(f = "articleContent" /\ Truthy(data["content"])))

\* requiredFields.filter(field => !blogData[field])
MissingFields(data) == SelectSeq(requiredFields, LAMBDA f : ~Truthy(data[f]))

RECURSIVE JoinWith(_, _)
JoinWith(names, sep) ==
    IF names = <<>> THEN <<>>
    ELSE IF Len(names) = 1 THEN <<names[1]>>
    ELSE <<names[1], sep>> \o JoinWith(Tail(names), sep)

\* names.join(", ")
Join(names) == JoinWith(names, ", ")

ParseFail(msg) == [ok |-> FALSE, error |-> msg, data |-> EmptyObject]

\* jsonError.message.match(/position (\d+)/): the engine's message names the
\* position of the error, or (positioned = FALSE) quotes the text instead
ReportedPosition(p, positioned) == IF positioned THEN p.position ELSE 0

\* faulty variant of ParseResponse: a text without a readable object is
\* taken for an empty payload
ParseResponse_Lenient(text, positioned) ==
    LET m == JsonMatch(CleanedText(text)) IN
    IF m = <<>> \/ ~JSONparse(m).ok
    THEN [ok |-> TRUE, error |-> <<>>, data |-> EmptyObject]
    ELSE IF MissingFields(JSONparse(m).data) # <<>>
    THEN ParseFail(<<"AI response missing critical fields: ">>
                   \o Join(MissingFields(JSONparse(m).data))
                   \o <<". The generated content is incomplete. Please try again.">>)
    ELSE [ok |-> TRUE, error |-> <<>>, data |-> JSONparse(m).data]

\* step 6 of the action: the payload, or the message its catch reports
ParseResponse(text, positioned) ==
    LET m == JsonMatch(CleanedText(text)) IN
    IF m = <<>>
    THEN ParseFail(<<"AI response did not contain valid ", "JSON",
                     ". This might be a temporary issue. Please try again.">>)
    ELSE LET p == JSONparse(m) IN
         IF ~p.ok
         THEN ParseFail(<<"Invalid ", "JSON", " from AI at position ">>
                        \o NumToStr(ReportedPosition(p, positioned))
                        \o <<". The AI response format was incorrect. Please try again.">>)
         ELSE IF MissingFields(p.data) # <<>>
         THEN ParseFail(<<"AI response missing critical fields: ">>
                        \o Join(MissingFields(p.data))
                        \o <<". The generated content is incomplete. Please try again.">>)
         ELSE IF ~Truthy(p.data["articleContent"]) /\ ~Truthy(p.data["content"])
         THEN ParseFail(<<"No article content generated. Please try again.">>)
         ELSE [ok |-> TRUE, error |-> <<>>, data |-> p.data]

(***************************************************************************)
(* app.generate-blog.tsx: validation, prompt, slug, error mapping          *)
(***************************************************************************)
NoValidated ==
    [keyword |-> <<>>, secondaryKeywords |-> <<>>, searchIntent |-> <<>>, tone |-> <<>>,
     audienceLevel |-> <<>>, country |-> <<>>, wordCount |-> 0]

\* the validators in the order the action applies them
ValidatorResults(form) ==
    << validateKeyword(form.keyword),
       validateSecondaryKeywords(form.secondaryKeywords),
       validateSearchIntent(form.searchIntent),
       validateTone(form.tone),
       validateAudienceLevel(form.audienceLevel),
       validateCountry(form.targetCountry),
       validateWordCount(form.wordCount) >>

\* faulty variant of ValidateAll: the tone is passed on without being validated
ValidateAll_SkipTone(form) ==
    LET res == [ValidatorResults(form) EXCEPT ![4] = Ok(Interp(form.tone))]
        failed == {i \in 1..Len(res) : ~res[i].ok}
    IN  IF failed # {}
        THEN [ok |-> FALSE, error |-> res[Min(failed)].error, v |-> NoValidated]
        ELSE [ok |-> TRUE, error |-> <<>>,
              v |-> [keyword |-> res[1].value, secondaryKeywords |-> res[2].value,
                     searchIntent |-> res[3].value, tone |-> res[4].value,
                     audienceLevel |-> res[5].value, country |-> res[6].value,
                     wordCount |-> res[7].num]]

\* the try block around the seven validators: the first throw ends it
ValidateAll(form) ==
    LET res == ValidatorResults(form)
        failed == {i \in 1..Len(res) : ~res[i].ok}
    IN  IF failed # {}
        THEN [ok |-> FALSE, error |-> res[Min(failed)].error, v |-> NoValidated]
        ELSE [ok |-> TRUE, error |-> <<>>,
              v |-> [keyword |-> res[1].value, secondaryKeywords |-> res[2].value,
                     searchIntent |-> res[3].value, tone |-> res[4].value,
                     audienceLevel |-> res[5].value, country |-> res[6].value,
                     wordCount |-> res[7].num]]

\* the prompt template: its literal segments and what is interpolated between them
Prompt(v, form) ==
    <<"# ELITE SEO CONTENT STRATEGIST ... PRIMARY KEYWORD: \"">> \o v.keyword
    \o <<"\"\nSECONDARY KEYWORDS: ">>
    \o (IF v.secondaryKeywords # <<>> THEN v.secondaryKeywords ELSE <<"Not specified">>)
    \o <<"\nSEARCH INTENT: ">> \o v.searchIntent
    \o <<"\nTARGET AUDIENCE: ">> \o v.audienceLevel
    \o <<"\nCONTENT TONE: ">> \o v.tone
    \o <<"\nWORD COUNT TARGET: ">> \o NumToStr(v.wordCount)
    \o <<"+ words minimum\nTARGET COUNTRY: ">> \o v.country
    \o <<"\n... Analyze the competitive landscape for \"">> \o v.keyword
    \o <<"\": ... \"articleContent\": \"... Minimum ">> \o Interp(form.wordCount)
    \o <<" words.\", ... \"question\": \"What is ">> \o Interp(form.keyword)
    \o <<"?\" ... \"question\": \"How does ">> \o Interp(form.keyword)
    \o <<" work?\" ... \"question\": \"Why is ">> \o Interp(form.keyword)
    \o <<" important?\" ... \"question\": \"When should you use ">> \o Interp(form.keyword)
    \o <<"?\" ... \"question\": \"What are common ">> \o Interp(form.keyword)
    \o <<" mistakes?\" ... \"question\": \"">> \o Interp(form.keyword)
    \o <<" vs alternatives?\" ... Return ONLY the JSON object ...">>

\* .toLowerCase()
LowerChar(c) ==
    IF c \in Upper THEN LowerSeq[CHOOSE i \in 1..Len(UpperSeq) : UpperSeq[i] = c] ELSE c
toLowerCase(s) == [i \in 1..Len(s) |-> LowerChar(s[i])]

\* faulty variant of HyphenateRuns: the pattern /[^a-z0-9]/g, one hyphen for
\* each character
HyphenateRuns_EachChar(s, inRun) ==
    [i \in 1..Len(s) |-> IF s[i] \in Lower \cup Digits THEN s[i] ELSE "-"]

\* .replace(/[^a-z0-9]+/g, "-")
RECURSIVE HyphenateRuns(_, _)
HyphenateRuns(s, inRun) ==
    IF s = <<>> THEN <<>>
    ELSE IF Head(s) \in Lower \cup Digits THEN <<Head(s)>> \o HyphenateRuns(Tail(s), FALSE)
    ELSE IF inRun THEN HyphenateRuns(Tail(s), TRUE)
    ELSE <<"-">> \o HyphenateRuns(Tail(s), TRUE)

\* .replace(/^-|-$/g, "")
StripEdgeHyphens(s) ==
    LET a == IF s # <<>> /\ Head(s) = "-" THEN Tail(s) ELSE s
    IN  IF a # <<>> /\ a[Len(a)] = "-" THEN SubSeq(a, 1, Len(a) - 1) ELSE a

articleSlug(data) ==
    IF Truthy(data["urlSlug"]) THEN data["urlSlug"].s
    ELSE StripEdgeHyphens(HyphenateRuns(toLowerCase(data["selectedTitle"].s), FALSE))

\* faulty variant of ArticleInput: the payload decides whether the article is published
ArticleInput_PayloadFlag(blogId, data) ==
    [blogId |-> blogId,
     title |-> data["selectedTitle"].s,
     body |-> IF Truthy(data["articleContent"]) THEN data["articleContent"].s
              ELSE IF Truthy(data["content"]) THEN data["content"].s ELSE <<>>,
     summary |-> data["metaDescription"].s,
     handle |-> articleSlug(data),
     tags |-> IF Truthy(data["tags"]) THEN data["tags"].s ELSE <<>>,
     isPublished |-> Truthy(data["isPublished"])]

\* the variables of the articleCreate mutation
ArticleInput(blogId, data) ==
    [blogId |-> blogId,
     title |-> data["selectedTitle"].s,
     body |-> IF Truthy(data["articleContent"]) THEN data["articleContent"].s
              ELSE IF Truthy(data["content"]) THEN data["content"].s ELSE <<>>,
     summary |-> data["metaDescription"].s,
     handle |-> articleSlug(data),
     tags |-> IF Truthy(data["tags"]) THEN data["tags"].s ELSE <<>>,
     isPublished |-> FALSE]

\* what an awaited call can throw: an Error, a string, or another value
Thrown(kind, message) == [kind |-> kind, message |-> message]

\* errorMessage.includes(word)
Includes(msg, word) == \E i \in 1..Len(msg) : msg[i] = word

\* the outer catch: the message of the 500 response
OuterCatch(e) ==
    LET errorMessage ==
            IF e.kind \in {"Error", "string"} THEN e.message
            ELSE <<"An unexpected error occurred while generating your blog post. Please try again.">>
    IN  IF Includes(errorMessage, "JSON")
        THEN <<"The AI response format was invalid. Please try again. If this persists, try a different keyword.">>
        ELSE IF Includes(errorMessage, "timeout")
        THEN <<"The request took too long. Please try again with a simpler keyword.">>
        ELSE IF Includes(errorMessage, "GEMINI_API_KEY")
        THEN <<"Configuration error: API key not found. Please contact support.">>
        ELSE errorMessage

\* faulty variant of LastSegment: what follows the first "/" is returned
LastSegment_AfterFirst(gid) ==
    IF Positions(gid, "/") = {} THEN gid
    ELSE SubSeq(gid, Min(Positions(gid, "/")) + 1, Len(gid))

\* article.id.split("/").pop()
LastSegment(gid) ==
    IF Positions(gid, "/") = {} THEN gid
    ELSE SubSeq(gid, Max(Positions(gid, "/")) + 1, Len(gid))

NoResponse ==
    [status |-> 0, success |-> FALSE, error |-> <<>>, articleId |-> <<>>,
     articleTitle |-> <<>>]
ErrorResponse(status, msg) == [NoResponse EXCEPT !.status = status, !.error = msg]
SuccessResponse(id, title) ==
    [NoResponse EXCEPT !.status = 200, !.success = TRUE, !.articleId = id,
                       !.articleTitle = title]

(***************************************************************************)
(* What the collaborators can hand to one invocation                       *)
(***************************************************************************)
Slots == {1, 2}

\* the option values of the generator form's four dropdowns
FormOptions ==
    [searchIntent |-> {<<"informational">>, <<"commercial">>, <<"transactional">>,
                       <<"navigational">>},
     targetCountry |-> {<<"US">>, <<"UK">>, <<"CA">>, <<"AU">>, <<"DE">>, <<"FR">>,
                        <<"IN">>},
     audienceLevel |-> {<<"beginner">>, <<"intermediate">>, <<"expert">>},
     tone |-> {<<"authoritative">>, <<"friendly">>, <<"professional">>,
               <<"conversational">>}]

BaseForm ==
    [keyword |-> <<"s", "e", "o">>, secondaryKeywords |-> <<"a", ",", "b">>,
     searchIntent |-> <<"informational">>, targetCountry |-> <<"US">>,
     audienceLevel |-> <<"beginner">>, tone |-> <<"casual">>,
     wordCount |-> <<"5", "0", "0">>]

FieldValues ==
    [keyword |-> {NULL, <<" ", "s", "e", "o">>, <<"a", "\n", "b">>, <<"<">>},
     secondaryKeywords |-> {NULL, <<" ">>, <<";">>},
     searchIntent |-> {NULL, <<"navigational">>},
     targetCountry |-> {<<"us">>},
     audienceLevel |-> {<<"general">>},
     tone |-> {<<"professional">>},
     wordCount |-> {NULL, <<"5", "0", "0", "a">>, <<"4", "9", "9">>}]

Vary(S) ==
    S \cup UNION {{[form EXCEPT ![f] = x] : x \in FieldValues[f]} :
                    form \in S, f \in DOMAIN FieldValues}

\* the forms that differ from BaseForm in at most two fields
Forms == Vary(Vary({BaseForm}))

ObjectText(members) == <<"{">> \o JoinWith(members, ",") \o <<"}">>

mTitle == Members[1].chunk
mNoTitle == Members[2].chunk
mArticle == Members[3].chunk
mContent == Members[4].chunk
mMeta == Members[5].chunk
mAux == <<Members[6].chunk, Members[7].chunk, Members[8].chunk, Members[9].chunk>>
mSlug == Members[10].chunk
mTags == Members[11].chunk
mPublished == Members[12].chunk

FullObject == ObjectText(<<mTitle, mArticle, mMeta>> \o mAux)

ProviderTexts ==
    { FullObject,
      ObjectText(<<mTitle, mArticle, mMeta>> \o mAux \o <<mSlug, mTags>>),
      ObjectText(<<mTitle, mArticle, mMeta>> \o mAux \o <<mPublished>>),
      Fence \o <<"j", "s", "o", "n", "\n">> \o FullObject \o <<"\n">> \o Fence,
      <<"O", "K", ":", " ">> \o FullObject \o <<" ", "b", "y", "e">>,
      ObjectText(<<mTitle, mArticle, mMeta>>),
      ObjectText(<<mTitle, mMeta>> \o mAux),
      ObjectText(<<mTitle, mContent, mMeta>> \o mAux),
      ObjectText(<<mNoTitle, mArticle, mMeta>> \o mAux),
      <<"{", mTitle, ",", "}">>,
      <<"s", "o", "r", "r", "y">> }

ProviderErrors ==
    { Thrown("Error", <<"[GoogleGenerativeAI Error]: fetch failed">>),
      Thrown("Error", <<"[GoogleGenerativeAI Error]: API key not valid">>),
      Thrown("Error", <<"Unexpected token in ", "JSON">>),
      Thrown("Error", <<"request ", "timeout">>),
      Thrown("Error", <<"GEMINI_API_KEY", " is not set">>),
      Thrown("string", <<"quota exhausted">>),
      Thrown("other", <<>>) }

StoreErrors ==
    { Thrown("Error", <<"GraphQL Client: Throttled">>),
      Thrown("Error", <<"request ", "timeout">>) }

UserErrors ==
    { << <<"Title can't be blank">> >>,
      << <<"Handle has already been taken">>, <<"Blog does not exist">> >> }

BlogGid(n) == <<"gid:", "/", "/", "shopify", "/", "Blog", "/">> \o NumToStr(n)
ArticleGid(n) == <<"gid:", "/", "/", "shopify", "/", "Article", "/">> \o NumToStr(n)
\* the identifiers the store may give its n-th article: a global id, or a bare one
ArticleIds(n) == {ArticleGid(n), NumToStr(n)}

(***************************************************************************)
(* app.generate-blog.tsx: action, one step per awaited call                *)
(*                                                                         *)
(* pc: idle -> auth -> form -> generate -> lookup -> [blogCreate ->]       *)
(*     articleCreate -> done; every failure goes straight to done          *)
(***************************************************************************)
NoThrown == Thrown("none", <<>>)

Idle ==
    [pc |-> "idle", method |-> "", shop |-> "", rateLimitError |-> <<>>,
     form |-> BaseForm, validated |-> NoValidated, prompt |-> <<>>,
     text |-> <<>>, thrown |-> NoThrown, userErrors |-> <<>>,
     blogData |-> EmptyObject, blogId |-> <<>>, articleGid |-> <<>>,
     providerCalls |-> 0, storeCalls |-> <<>>, calls |-> <<>>, blogInput |-> <<>>,
     response |-> NoResponse]

Respond(r, rec, response) ==
    req' = [req EXCEPT ![r] = [rec EXCEPT !.pc = "done", !.response = response]]

\* a request arrives; anything but POST is answered at once
Receive(r) ==
    /\ req[r].pc = "idle"
    /\ \E method \in {"POST", "GET"}, shop \in Shops :
         LET rec == [req[r] EXCEPT !.method = method, !.shop = shop] IN
         IF method # "POST"
         THEN Respond(r, rec, ErrorResponse(405, <<"Method not allowed">>))
         ELSE req' = [req EXCEPT ![r] = [rec EXCEPT !.pc = "auth"]]
    /\ UNCHANGED <<log, call, now, rateLimitStore, blogs, articles, db, job>>

\* faulty variant of RateLimit: the limiter is consulted but its answer does not end the request
RateLimit_Unchecked(r) ==
    /\ req[r].pc = "auth"
    /\ rateLimitStore' =
          rateLimitStored(rateLimitStore, req[r].shop, "blog-generation", now)
    /\ req' = [req EXCEPT ![r] =
                  [@ EXCEPT !.pc = "form",
                            !.rateLimitError =
                                rateLimitCheck(rateLimitStore, req[r].shop,
                                               "blog-generation", now)]]
    /\ UNCHANGED <<log, call, now, blogs, articles, db, job>>

\* faulty variant of RateLimit: the limiter is consulted and nothing is stored
RateLimit_Uncounted(r) ==
    /\ req[r].pc = "auth"
    /\ LET rateLimitError ==
               rateLimitCheck(rateLimitStore, req[r].shop, "blog-generation", now)
           rec == [req[r] EXCEPT !.rateLimitError = rateLimitError,
                                 !.calls = Append(@, "rateLimitCheck")]
       IN  IF rateLimitError # <<>>
           THEN Respond(r, rec, ErrorResponse(429, rateLimitError))
           ELSE req' = [req EXCEPT ![r] = [rec EXCEPT !.pc = "form"]]
    /\ UNCHANGED <<log, call, now, rateLimitStore, blogs, articles, db, job>>

\* authenticate.admin resolved: rateLimitCheck(shop, 'blog-generation')
RateLimit(r) ==
    /\ req[r].pc = "auth"
    /\ LET rateLimitError ==
               rateLimitCheck(rateLimitStore, req[r].shop, "blog-generation", now)
           rec == [req[r] EXCEPT !.rateLimitError = rateLimitError,
                                 !.calls = Append(@, "rateLimitCheck")]
       IN  /\ rateLimitStore' =
                  rateLimitStored(rateLimitStore, req[r].shop, "blog-generation", now)
           /\ IF rateLimitError # <<>>
              THEN Respond(r, rec, ErrorResponse(429, rateLimitError))
              ELSE req' = [req EXCEPT ![r] = [rec EXCEPT !.pc = "form"]]
    /\ UNCHANGED <<log, call, now, blogs, articles, db, job>>

\* request.formData() resolved: validate, build the prompt, call the provider
ValidateFrom(r, forms) ==
    /\ req[r].pc = "form"
    /\ \E form \in forms :
         LET checked == ValidateAll(form)
             rec == [req[r] EXCEPT !.form = form]
         IN  IF ~checked.ok
             THEN Respond(r, rec, ErrorResponse(400, checked.error))
             ELSE req' = [req EXCEPT ![r] =
                             [rec EXCEPT !.pc = "generate",
                                         !.validated = checked.v,
                                         !.prompt = Prompt(checked.v, form),
                                         !.providerCalls = @ + 1,
                                         !.calls = Append(@, "generateContent")]]
    /\ UNCHANGED <<log, call, now, rateLimitStore, blogs, articles, db, job>>

Validate(r) == ValidateFrom(r, Forms)

\* model.generateContent / response.text() threw
GenerateThrowsFrom(r, errors) ==
    /\ req[r].pc = "generate"
    /\ \E e \in errors :
         Respond(r, [req[r] EXCEPT !.thrown = e], ErrorResponse(500, OuterCatch(e)))
    /\ UNCHANGED <<log, call, now, rateLimitStore, blogs, articles, db, job>>

GenerateThrows(r) == GenerateThrowsFrom(r, ProviderErrors)

\* the provider answered: parse, check the fields, query the blogs
GenerateReturnsFrom(r, texts) ==
    /\ req[r].pc = "generate"
    /\ \E text \in texts, positioned \in BOOLEAN :
         LET parsed == ParseResponse(text, positioned)
             rec == [req[r] EXCEPT !.text = text]
         IN  IF ~parsed.ok
             THEN Respond(r, rec,
                          ErrorResponse(500, <<"Generation Error: ">> \o parsed.error))
             ELSE req' = [req EXCEPT ![r] =
                             [rec EXCEPT !.pc = "lookup",
                                         !.blogData = parsed.data,
                                         !.storeCalls = Append(@, "blogs"),
                                         !.calls = Append(@, "blogs")]]
    /\ UNCHANGED <<log, call, now, rateLimitStore, blogs, articles, db, job>>

GenerateReturns(r) == GenerateReturnsFrom(r, ProviderTexts)

\* faulty variant of StoreThrows: the call that threw is issued again
StoreThrows_Retry(r) ==
    /\ req[r].pc \in {"lookup", "blogCreate", "articleCreate"}
    /\ req' = [req EXCEPT ![r] =
                  [@ EXCEPT !.storeCalls = Append(@, @[Len(@)]),
                            !.calls = Append(@, @[Len(@)])]]
    /\ UNCHANGED <<log, call, now, rateLimitStore, blogs, articles, db, job>>

\* an admin.graphql call threw
StoreThrows(r) ==
    /\ req[r].pc \in {"lookup", "blogCreate", "articleCreate"}
    /\ \E e \in StoreErrors :
         Respond(r, [req[r] EXCEPT !.thrown = e], ErrorResponse(500, OuterCatch(e)))
    /\ UNCHANGED <<log, call, now, rateLimitStore, blogs, articles, db, job>>

\* blogs(first: 1) answered: use the first blog, or create one
\* the variables of the blogCreate mutation
BlogInput == [title |-> <<"News">>]

\* faulty variant of LookupReturns: a blog is created whatever the lookup returned
LookupReturns_AlwaysCreate(r) ==
    /\ req[r].pc = "lookup"
    /\ req' = [req EXCEPT ![r] =
                  [@ EXCEPT !.pc = "blogCreate",
                            !.blogInput = BlogInput,
                            !.storeCalls = Append(@, "blogCreate"),
                            !.calls = Append(@, "blogCreate")]]
    /\ UNCHANGED <<log, call, now, rateLimitStore, blogs, articles, db, job>>

\* the blogs query answered: the first blog is taken, or one is created
LookupReturns(r) ==
    /\ req[r].pc = "lookup"
    /\ IF Len(blogs) > 0
       THEN req' = [req EXCEPT ![r] =
                       [@ EXCEPT !.pc = "articleCreate",
                                 !.blogId = blogs[1],
                                 !.storeCalls = Append(@, "articleCreate"),
                                 !.calls = Append(@, "articleCreate")]]
       ELSE req' = [req EXCEPT ![r] =
                       [@ EXCEPT !.pc = "blogCreate",
                                 !.blogInput = BlogInput,
                                 !.storeCalls = Append(@, "blogCreate"),
                                 !.calls = Append(@, "blogCreate")]]
    /\ UNCHANGED <<log, call, now, rateLimitStore, blogs, articles, db, job>>

\* faulty variant of BlogCreateReturns: the article goes to the first blog of
\* the store, not to the blog this request created
BlogCreateReturns_FirstListed(r) ==
    /\ req[r].pc = "blogCreate"
    /\ blogs' = Append(blogs, BlogGid(Len(blogs) + 1))
    /\ req' = [req EXCEPT ![r] =
                  [@ EXCEPT !.pc = "articleCreate",
                            !.blogId = blogs'[1],
                            !.storeCalls = Append(@, "articleCreate"),
                            !.calls = Append(@, "articleCreate")]]
    /\ UNCHANGED <<log, call, now, rateLimitStore, articles, db, job>>

\* blogCreate answered with the new blog
BlogCreateReturns(r) ==
    /\ req[r].pc = "blogCreate"
    /\ blogs' = Append(blogs, BlogGid(Len(blogs) + 1))
    /\ req' = [req EXCEPT ![r] =
                  [@ EXCEPT !.pc = "articleCreate",
                            !.blogId = BlogGid(Len(blogs) + 1),
                            !.storeCalls = Append(@, "articleCreate"),
                            !.calls = Append(@, "articleCreate")]]
    /\ UNCHANGED <<log, call, now, rateLimitStore, articles, db, job>>

\* blogCreate answered with userErrors
BlogCreateFails(r) ==
    /\ req[r].pc = "blogCreate"
    /\ \E errs \in UserErrors :
         Respond(r, [req[r] EXCEPT !.userErrors = errs],
                 ErrorResponse(500, <<"Failed to create blog">>))
    /\ UNCHANGED <<log, call, now, rateLimitStore, blogs, articles, db, job>>

\* faulty variant of ArticleCreateReturns: an article of the same blog and
\* title that already exists is returned instead of a new one
ArticleCreateReturns_Deduplicated(r) ==
    /\ req[r].pc = "articleCreate"
    /\ \E gid \in ArticleIds(Cardinality(articles) + 1) :
         LET article == [id |-> gid] @@ ArticleInput(req[r].blogId, req[r].blogData)
             same == {a \in articles :
                        a.blogId = article.blogId /\ a.title = article.title}
             kept == IF same = {} THEN article ELSE CHOOSE a \in same : TRUE
         IN  /\ articles' = articles \cup {kept}
             /\ Respond(r, [req[r] EXCEPT !.articleGid = kept.id],
                        SuccessResponse(LastSegment(kept.id), kept.title))
    /\ UNCHANGED <<log, call, now, rateLimitStore, blogs, db, job>>

\* articleCreate answered with the article
ArticleCreateReturns(r) ==
    /\ req[r].pc = "articleCreate"
    /\ \E gid \in ArticleIds(Cardinality(articles) + 1) :
         LET article == [id |-> gid] @@ ArticleInput(req[r].blogId, req[r].blogData)
         IN  /\ articles' = articles \cup {article}
             /\ Respond(r, [req[r] EXCEPT !.articleGid = article.id],
                        SuccessResponse(LastSegment(article.id), article.title))
    /\ UNCHANGED <<log, call, now, rateLimitStore, blogs, db, job>>

\* faulty variant of ArticleCreateFails: the userErrors of articleCreate are not looked at
ArticleCreateFails_Unchecked(r) ==
    /\ req[r].pc = "articleCreate"
    /\ \E errs \in UserErrors :
         Respond(r, [req[r] EXCEPT !.userErrors = errs],
                 SuccessResponse(<<>>, req[r].blogData["selectedTitle"].s))
    /\ UNCHANGED <<log, call, now, rateLimitStore, blogs, articles, db, job>>

\* articleCreate answered with userErrors
ArticleCreateFails(r) ==
    /\ req[r].pc = "articleCreate"
    /\ \E errs \in UserErrors :
         Respond(r, [req[r] EXCEPT !.userErrors = errs],
                 ErrorResponse(500, <<"Failed to create article: ">> \o errs[1]))
    /\ UNCHANGED <<log, call, now, rateLimitStore, blogs, articles, db, job>>

(***************************************************************************)
(* Specification of one invocation of the action                           *)
(***************************************************************************)
\* the records a key can hold when the request arrives
(***************************************************************************)
(* app.research-topics.tsx: the action, one step for each await            *)
(***************************************************************************)
\* the ids the database gives to new BlogTopicResearch rows, in order
TopicIds == <<"ck01", "ck02", "ck03", "ck04", "ck05", "ck06", "ck07", "ck08">>

\* JSON.stringify(topicIds)
RECURSIVE Stringified(_)
Stringified(ids) ==
    IF ids = <<>> THEN <<>>
    ELSE <<"\"", Head(ids), "\"">>
         \o (IF Len(ids) = 1 THEN <<>> ELSE <<",">>) \o Stringified(Tail(ids))

Stringify(ids) == <<"[">> \o Stringified(ids) \o <<"]">>

NoDb == [topics |-> {}, cache |-> [shop \in Shops |-> NULL], issued |-> 0]

\* a database in which each shop has one stored topic, listed in its cache row
SeededDb ==
    [topics |-> {[id |-> TopicIds[1], shop |-> "shop-a", title |-> "Old"],
                 [id |-> TopicIds[2], shop |-> "shop-b", title |-> "Old"]},
     cache |-> [shop \in Shops |->
                   Stringify(<<TopicIds[IF shop = "shop-a" THEN 1 ELSE 2]>>)],
     issued |-> 2]

\* the topic objects a provider text can hold, each one chunk
TopicChunks == {"{\"title\":\"A\"}", "{\"title\":\"B\"}"}
TopicTitle(c) == IF c = "{\"title\":\"A\"}" THEN "A" ELSE "B"

ResearchTexts ==
    { <<"[", "{\"title\":\"A\"}", ",", "{\"title\":\"B\"}", "]">>,
      <<"a", "[", " ", "{\"title\":\"A\"}", "\n", "]", "a">>,
      <<"[", "{\"title\":\"A\"}", "{\"title\":\"B\"}", "]">>,
      <<"[", "]">>,
      <<"s", "o", "r", "r", "y">> }

\* content.match(/\[\s*{[\s\S]*}\s*\]/): <<>> stands for no match
MatchArray(s) ==
    LET Opens(i) ==
            /\ s[i] = "["
            /\ \E k \in (i + 1)..Len(s) :
                  /\ s[k] \in TopicChunks
                  /\ \A h \in (i + 1)..(k - 1) : s[h] \in WhiteSpace
        Closes(i, j) ==
            /\ s[j] = "]"
            /\ \E k \in (i + 1)..(j - 1) :
                  /\ s[k] \in TopicChunks
                  /\ \A h \in (k + 1)..(j - 1) : s[h] \in WhiteSpace
        starts == {i \in 1..Len(s) : Opens(i) /\ \E j \in (i + 1)..Len(s) : Closes(i, j)}
    IN  IF starts = {} THEN <<>>
        ELSE LET i == Min(starts)
             IN  SubSeq(s, i, Max({j \in (i + 1)..Len(s) : Closes(i, j)}))

\* topics = JSON.parse(jsonMatch[0]), or the error that replaces any failure
ParseTopics(content) ==
    LET toks == SelectSeq(MatchArray(content), LAMBDA c : c \notin WhiteSpace)
        n == Len(toks)
        wellFormed ==
            /\ n >= 3 /\ n % 2 = 1
            /\ \A k \in 2..(n - 1) :
                  IF k % 2 = 0 THEN toks[k] \in TopicChunks ELSE toks[k] = ","
    IN  IF wellFormed
        THEN [ok |-> TRUE, error |-> <<>>,
              topics |-> [k \in 1..((n - 1) \div 2) |-> TopicTitle(toks[2 * k])]]
        ELSE [ok |-> FALSE, error |-> <<"Failed to parse AI research results">>,
              topics |-> <<>>]

ResearchErrors ==
    { Thrown("Error", <<"[GoogleGenerativeAI Error]: fetch failed">>),
      Thrown("string", <<"quota exhausted">>) }

DbErrors == { Thrown("Error", <<"Can't reach database server">>) }

\* the catch of the action: error.message of an Error, else a fixed text
ResearchCatch(e) == IF e.kind = "Error" THEN e.message ELSE <<"Research failed">>

ResearchIdle ==
    [pc |-> "idle", method |-> "", shop |-> "", topics |-> <<>>, created |-> <<>>,
     status |-> 0, success |-> FALSE, topicCount |-> 0, error |-> <<>>]

ResearchFails(r, rec, status, msg) ==
    job' = [job EXCEPT ![r] = [rec EXCEPT !.pc = "done", !.status = status,
                                          !.error = msg]]

\* a request arrives; anything but POST is answered at once
ResearchReceive(r) ==
    /\ job[r].pc = "idle"
    /\ \E method \in {"POST", "GET"}, shop \in Shops :
         LET rec == [job[r] EXCEPT !.method = method, !.shop = shop] IN
         IF method # "POST"
         THEN ResearchFails(r, rec, 405, <<"Method not allowed">>)
         ELSE job' = [job EXCEPT ![r] = [rec EXCEPT !.pc = "auth"]]
    /\ UNCHANGED <<log, call, now, rateLimitStore, blogs, articles, req, db>>

\* authenticate.admin resolved: rateLimitCheck(shop, 'research-topics')
ResearchRateLimit(r) ==
    /\ job[r].pc = "auth"
    /\ LET rateLimitError ==
               rateLimitCheck(rateLimitStore, job[r].shop, "research-topics", now)
       IN  /\ rateLimitStore' =
                  rateLimitStored(rateLimitStore, job[r].shop, "research-topics", now)
           /\ IF rateLimitError # <<>>
              THEN ResearchFails(r, job[r], 429, rateLimitError)
              ELSE job' = [job EXCEPT ![r] = [@ EXCEPT !.pc = "generate"]]
    /\ UNCHANGED <<log, call, now, blogs, articles, req, db>>

\* model.generateContent(prompt) rejected
ResearchGenerateThrows(r) ==
    /\ job[r].pc = "generate"
    /\ \E e \in ResearchErrors : ResearchFails(r, job[r], 500, ResearchCatch(e))
    /\ UNCHANGED <<log, call, now, rateLimitStore, blogs, articles, req, db>>

\* model.generateContent(prompt) resolved: the array is extracted and parsed
ResearchGenerateReturns(r) ==
    /\ job[r].pc = "generate"
    /\ \E content \in ResearchTexts :
         LET parsed == ParseTopics(content) IN
         IF ~parsed.ok
         THEN ResearchFails(r, job[r], 500, parsed.error)
         ELSE job' = [job EXCEPT ![r] = [@ EXCEPT !.pc = "delete",
                                                  !.topics = parsed.topics]]
    /\ UNCHANGED <<log, call, now, rateLimitStore, blogs, articles, req, db>>

\* a prisma call rejected
ResearchDbThrows(r) ==
    /\ job[r].pc \in {"delete", "create", "upsert"}
    /\ \E e \in DbErrors : ResearchFails(r, job[r], 500, ResearchCatch(e))
    /\ UNCHANGED <<log, call, now, rateLimitStore, blogs, articles, req, db>>

\* prisma.blogTopicResearch.deleteMany({ where: { shop } }) resolved
ResearchDelete(r) ==
    /\ job[r].pc = "delete"
    /\ db' = [db EXCEPT !.topics = {t \in @ : t.shop # job[r].shop}]
    /\ job' = [job EXCEPT ![r] = [@ EXCEPT !.pc = "create"]]
    /\ UNCHANGED <<log, call, now, rateLimitStore, blogs, articles, req>>

\* one prisma.blogTopicResearch.create of the Promise.all resolved; after the
\* last one the upsert is issued
ResearchCreate(r) ==
    /\ job[r].pc = "create"
    /\ db.issued < Len(TopicIds)
    /\ LET id == TopicIds[db.issued + 1]
           created == Append(job[r].created, id)
           row == [id |-> id, shop |-> job[r].shop,
                   title |-> job[r].topics[Len(created)]]
       IN  /\ db' = [db EXCEPT !.topics = @ \cup {row}, !.issued = @ + 1]
           /\ job' = [job EXCEPT ![r] =
                         [@ EXCEPT !.created = created,
                                   !.pc = IF Len(created) = Len(job[r].topics)
                                          THEN "upsert" ELSE "create"]]
    /\ UNCHANGED <<log, call, now, rateLimitStore, blogs, articles, req>>

\* prisma.keywordSuggestionCache.upsert resolved
ResearchUpsert(r) ==
    /\ job[r].pc = "upsert"
    /\ db' = [db EXCEPT !.cache[job[r].shop] = Stringify(job[r].created)]
    /\ job' = [job EXCEPT ![r] =
                  [@ EXCEPT !.pc = "done", !.status = 200, !.success = TRUE,
                            !.topicCount = Len(job[r].created)]]
    /\ UNCHANGED <<log, call, now, rateLimitStore, blogs, articles, req>>

RecordsAt(t) ==
    {NoRecord}
    \cup {[count |-> c, resetAt |-> at] :
            c \in 1..(BLOG_GENERATION_MAX + 1), at \in {t - 1000, t + 1500}}

Init ==
    /\ log = NoLog
    /\ call = NoCall
    /\ now = 2 * BLOG_GENERATION_WINDOW_MS
    /\ \E record \in RecordsAt(now) :
         rateLimitStore =
            [k \in RateKeys |-> IF k = <<"shop-a", "blog-generation">> THEN record
                                ELSE NoRecord]
    /\ blogs \in {<<>>, <<BlogGid(1)>>}
    /\ articles = {}
    /\ req = [r \in Slots |-> Idle]
    /\ db = NoDb
    /\ job = [r \in Slots |-> ResearchIdle]

Step(r) ==
    \/ Receive(r)
    \/ RateLimit(r)
    \/ Validate(r)
    \/ GenerateThrows(r)
    \/ GenerateReturns(r)
    \/ StoreThrows(r)
    \/ LookupReturns(r)
    \/ BlogCreateReturns(r)
    \/ BlogCreateFails(r)
    \/ ArticleCreateReturns(r)
    \/ ArticleCreateFails(r)

Next == Step(1)

Spec == Init /\ [][Next]_vars

(***************************************************************************)
(* Specification of two invocations, interleaved, over a few inputs        *)
(***************************************************************************)
PairForms ==
    { BaseForm,
      [BaseForm EXCEPT !.keyword = <<" ", "s", "e", "o">>],
      [BaseForm EXCEPT !.wordCount = <<"5", "0", "0", "a">>],
      [BaseForm EXCEPT !.tone = <<"professional">>] }

PairErrors ==
    { Thrown("Error", <<"[GoogleGenerativeAI Error]: fetch failed">>),
      Thrown("Error", <<"[GoogleGenerativeAI Error]: API key not valid">>),
      Thrown("Error", <<"request ", "timeout">>) }

PairTexts == {FullObject, <<"s", "o", "r", "r", "y">>}

InitPair ==
    /\ log = NoLog
    /\ call = NoCall
    /\ now = 2 * BLOG_GENERATION_WINDOW_MS
    /\ rateLimitStore = [k \in RateKeys |-> NoRecord]
    /\ blogs = <<>>
    /\ articles = {}
    /\ req = [r \in Slots |-> Idle]
    /\ db = NoDb
    /\ job = [r \in Slots |-> ResearchIdle]

StepPair(r) ==
    \/ Receive(r)
    \/ RateLimit(r)
    \/ ValidateFrom(r, PairForms)
    \/ GenerateThrowsFrom(r, PairErrors)
    \/ GenerateReturnsFrom(r, PairTexts)
    \/ StoreThrows(r)
    \/ LookupReturns(r)
    \/ BlogCreateReturns(r)
    \/ BlogCreateFails(r)
    \/ ArticleCreateReturns(r)
    \/ ArticleCreateFails(r)

NextPair == \E r \in Slots : StepPair(r)

SpecPair == InitPair /\ [][NextPair]_vars

(***************************************************************************)
(* Specification of requests served one after the other within one window  *)
(* of the limiter: log tallies the requests already answered               *)
(***************************************************************************)
QuotaForms == {BaseForm, [BaseForm EXCEPT !.tone = <<"professional">>]}

NoTally == [posts |-> [shop \in Shops |-> 0], answered |-> 0, statuses |-> {}]

InitQuota ==
    /\ log = NoTally
    /\ call = NoCall
    /\ now = 2 * BLOG_GENERATION_WINDOW_MS
    /\ rateLimitStore = [k \in RateKeys |-> NoRecord]
    /\ blogs = <<>>
    /\ articles = {}
    /\ req = [r \in Slots |-> Idle]
    /\ db = NoDb
    /\ job = [r \in Slots |-> ResearchIdle]

\* the response was sent: the next request of the behaviour can arrive
Answer(r) ==
    /\ req[r].pc = "done"
    /\ log.answered < MaxRequests
    /\ Cardinality(articles) <= MaxCreated
    /\ log' = [posts |-> IF req[r].method = "POST"
                         THEN [log.posts EXCEPT ![req[r].shop] = @ + 1]
                         ELSE log.posts,
               answered |-> log.answered + 1,
               statuses |-> log.statuses \cup {req[r].response.status}]
    /\ req' = [req EXCEPT ![r] = Idle]
    /\ UNCHANGED <<call, now, rateLimitStore, blogs, articles, db, job>>

StepQuota(r) ==
    \/ Receive(r)
    \/ RateLimit(r)
    \/ ValidateFrom(r, QuotaForms)
    \/ GenerateThrowsFrom(r, {Thrown("Error", <<"request ", "timeout">>)})
    \/ GenerateReturnsFrom(r, {FullObject, <<"s", "o", "r", "r", "y">>})
    \/ StoreThrows(r)
    \/ LookupReturns(r)
    \/ BlogCreateReturns(r)
    \/ BlogCreateFails(r)
    \/ ArticleCreateReturns(r)
    \/ ArticleCreateFails(r)
    \/ Answer(r)

NextQuota == StepQuota(1)

SpecQuota == InitQuota /\ [][NextQuota]_vars

(***************************************************************************)
(* Specification of the validators alone                                   *)
(***************************************************************************)
InitValidate ==
    /\ log = NoLog
    /\ call \in {Pending("validateKeyword", x) : x \in KeywordInputs}
                \cup {Pending("validateSecondaryKeywords", x) : x \in SecondaryInputs}
                \cup {Pending("validateWordCount", x) : x \in WordCountInputs}
                \cup {Pending(fn, x) :
                        fn \in {"validateSearchIntent", "validateTone",
                                "validateAudienceLevel", "validateCountry"},
                        x \in EnumInputs}
    /\ now = 0
    /\ rateLimitStore = [k \in RateKeys |-> NoRecord]
    /\ blogs = <<>>
    /\ articles = {}
    /\ req = [r \in Slots |-> Idle]
    /\ db = NoDb
    /\ job = [r \in Slots |-> ResearchIdle]

Apply(fn, out) ==
    /\ ~call.done
    /\ call.fn = fn
    /\ Returned(out)
    /\ UNCHANGED <<log, now, rateLimitStore, blogs, articles, req, db, job>>

ApplyKeyword == Apply("validateKeyword", validateKeyword(call.arg))
ApplySecondaryKeywords == Apply("validateSecondaryKeywords", validateSecondaryKeywords(call.arg))
ApplySearchIntent == Apply("validateSearchIntent", validateSearchIntent(call.arg))
ApplyTone == Apply("validateTone", validateTone(call.arg))
ApplyAudienceLevel == Apply("validateAudienceLevel", validateAudienceLevel(call.arg))
ApplyCountry == Apply("validateCountry", validateCountry(call.arg))
ApplyWordCount == Apply("validateWordCount", validateWordCount(call.arg))

NextValidate ==
    \/ ApplyKeyword
    \/ ApplySecondaryKeywords
    \/ ApplySearchIntent
    \/ ApplyTone
    \/ ApplyAudienceLevel
    \/ ApplyCountry
    \/ ApplyWordCount

SpecValidate == InitValidate /\ [][NextValidate]_vars

(***************************************************************************)
(* Specification of the extraction alone: fence stripping and the two      *)
(* patterns applied to one provider text                                   *)
(***************************************************************************)
\* what can stand before and after the braces of a provider text
WrapPieces ==
    { Fence \o <<"j", "s", "\n">>, <<"\n">> \o Fence, Fence,
      <<"a">>, <<"\n">>, <<"{">>, <<"}">> }
\* what the brace region is made of
CorePieces == { <<"{">>, <<"}">>, <<mTitle>> }

RECURSIVE Concats(_, _)
Concats(pieces, n) ==
    IF n = 0 THEN {<<>>}
    ELSE Concats(pieces, n - 1)
         \cup {s \o p : s \in Concats(pieces, n - 1), p \in pieces}

ExtractInputs ==
    {pre \o core \o post :
        pre \in Concats(WrapPieces, MaxWrap),
        core \in Concats(CorePieces, MaxCore),
        post \in Concats(WrapPieces, MaxWrap)}

\* the region handed to JSON.parse, or the error thrown when nothing matches
Extract(text) ==
    LET m == JsonMatch(CleanedText(text)) IN
    IF m = <<>>
    THEN Throw(<<"AI response did not contain valid ", "JSON",
                 ". This might be a temporary issue. Please try again.">>)
    ELSE Ok(m)

InitExtract ==
    /\ log = NoLog
    /\ call \in {Pending("extract", text) : text \in ExtractInputs}
    /\ now = 0
    /\ rateLimitStore = [k \in RateKeys |-> NoRecord]
    /\ blogs = <<>>
    /\ articles = {}
    /\ req = [r \in Slots |-> Idle]
    /\ db = NoDb
    /\ job = [r \in Slots |-> ResearchIdle]

ApplyExtract == Apply("extract", Extract(call.arg))

NextExtract == ApplyExtract

SpecExtract == InitExtract /\ [][NextExtract]_vars

(***************************************************************************)
(* Specification of the article handle alone: articleSlug over payloads    *)
(* with a title and with or without a urlSlug                              *)
(***************************************************************************)
SlugChars == {"a", "B", "7", "-", " ", "!"}

SlugValues ==
    {Undefined, JString(<<>>), JString(<<"M", "y", "-", "-", "S", "l", "u", "g", "-">>)}

SlugInputs ==
    {[EmptyObject EXCEPT !["selectedTitle"] = JString(title), !["urlSlug"] = slug] :
        title \in Concats({<<c>> : c \in SlugChars}, MaxTitle) \ {<<>>},
        slug \in SlugValues}

InitSlug ==
    /\ log = NoLog
    /\ call \in {Pending("articleSlug", data) : data \in SlugInputs}
    /\ now = 0
    /\ rateLimitStore = [k \in RateKeys |-> NoRecord]
    /\ blogs = <<>>
    /\ articles = {}
    /\ req = [r \in Slots |-> Idle]
    /\ db = NoDb
    /\ job = [r \in Slots |-> ResearchIdle]

ApplySlug == Apply("articleSlug", Ok(articleSlug(call.arg)))

NextSlug == ApplySlug

SpecSlug == InitSlug /\ [][NextSlug]_vars

(***************************************************************************)
(* Specification of the research-topics action: two invocations whose      *)
(* steps interleave, over a database that holds a topic of each shop       *)
(***************************************************************************)
InitResearch ==
    /\ log = NoLog
    /\ call = NoCall
    /\ now = 2 * RESEARCH_TOPICS_WINDOW_MS
    /\ \E record \in {NoRecord, [count |-> RESEARCH_TOPICS_MAX, resetAt |-> now + 1500]} :
         rateLimitStore =
            [k \in RateKeys |-> IF k = <<"shop-b", "research-topics">> THEN record
                                ELSE NoRecord]
    /\ blogs = <<>>
    /\ articles = {}
    /\ req = [r \in Slots |-> Idle]
    /\ db = SeededDb
    /\ job = [r \in Slots |-> ResearchIdle]

StepResearch(r) ==
    \/ ResearchReceive(r)
    \/ ResearchRateLimit(r)
    \/ ResearchGenerateThrows(r)
    \/ ResearchGenerateReturns(r)
    \/ ResearchDbThrows(r)
    \/ ResearchDelete(r)
    \/ ResearchCreate(r)
    \/ ResearchUpsert(r)

NextResearch == \E r \in Slots : StepResearch(r)

SpecResearch == InitResearch /\ [][NextResearch]_vars

(***************************************************************************)
(* Specification of the limiter alone: checks of several keys as the clock *)
(* advances.  rateLimitCheck awaits nothing, so a check is one step        *)
(* whatever requests are in flight.                                        *)
(***************************************************************************)
LimiterKeys ==
    { <<"shop-a", "blog-generation">>, <<"shop-a", "research-topics">>,
      <<"shop-b", "research-topics">> }

\* What one behaviour exercises: the keys that are checked, and by how much
\* the clock advances between checks: one key across its windows, two shops
\* with one action, one shop with two actions, all keys at one instant.
Scenarios ==
    { [keys |-> {<<"shop-a", "blog-generation">>},
       steps |-> {1, BLOG_GENERATION_WINDOW_MS - 1}],
      [keys |-> {<<"shop-a", "research-topics">>},
       steps |-> {1, RESEARCH_TOPICS_WINDOW_MS - 1}],
      [keys |-> {<<"shop-a", "research-topics">>, <<"shop-b", "research-topics">>},
       steps |-> {1, RESEARCH_TOPICS_WINDOW_MS - 1}],
      [keys |-> {<<"shop-a", "blog-generation">>, <<"shop-a", "research-topics">>},
       steps |-> {BLOG_GENERATION_WINDOW_MS + 1}],
      [keys |-> LimiterKeys, steps |-> {}] }

\* What an observer of the checks of one key has seen: when the current
\* window was opened (by the first check, or the first check after the reset
\* time of the window before), how many checks returned null since, and the
\* times of the checks that returned null less than one window length ago.
Unseen == [open |-> -1, grants |-> 0, recent |-> <<>>]

Observed(seen, action, t, granted) ==
    LET windowMs == RATE_LIMITS(action).windowMs
        opens == seen.open = -1 \/ t > seen.open + windowMs
        open == IF opens THEN t ELSE seen.open
        grants == IF opens THEN 0 ELSE seen.grants
        recent == SelectSeq(seen.recent, LAMBDA u : t - u < windowMs)
    IN  [open |-> open,
         grants |-> IF granted THEN grants + 1 ELSE grants,
         recent |-> IF granted THEN Append(recent, t) ELSE recent]

InitLimiter ==
    /\ \E scenario \in Scenarios :
         log = [scenario |-> scenario, ticks |-> 0,
                seen |-> [k \in LimiterKeys |-> Unseen]]
    /\ call = NoCall
    /\ now = 0
    /\ rateLimitStore = [k \in RateKeys |-> NoRecord]
    /\ blogs = <<>>
    /\ articles = {}
    /\ req = [r \in Slots |-> Idle]
    /\ db = NoDb
    /\ job = [r \in Slots |-> ResearchIdle]

\* some request of the shop reaches rateLimitCheck(shop, action)
Check(shop, action) ==
    /\ <<shop, action>> \in log.scenario.keys
    /\ CheckedRecord(rateLimitStore, shop, action, now).count
          <= RATE_LIMITS(action).max + MaxOver
    /\ rateLimitStore' = rateLimitStored(rateLimitStore, shop, action, now)
    /\ log' = [log EXCEPT !.seen[<<shop, action>>] =
                   Observed(@, action, now,
                            rateLimitCheck(rateLimitStore, shop, action, now) = <<>>)]
    /\ UNCHANGED <<call, now, blogs, articles, req, db, job>>

Tick ==
    /\ log.ticks < MaxTicks
    /\ \E d \in log.scenario.steps : now' = now + d
    /\ log' = [log EXCEPT !.ticks = @ + 1]
    /\ UNCHANGED <<call, rateLimitStore, blogs, articles, req, db, job>>

NextLimiter ==
    \/ \E shop \in Shops, action \in RateActions : Check(shop, action)
    \/ Tick

SpecLimiter == InitLimiter /\ [][NextLimiter]_vars

(***************************************************************************)
(* Vocabulary of the properties                                            *)
(***************************************************************************)
\* the invocation has read and validated its form
PastForm(r) ==
    \/ req[r].pc \in {"generate", "lookup", "blogCreate", "articleCreate"}
    \/ req[r].pc = "done" /\ req[r].method = "POST" /\ req[r].rateLimitError = <<>>

FailedValidators(form) ==
    LET res == ValidatorResults(form) IN {i \in 1..Len(res) : ~res[i].ok}

\* s without its leading and trailing white space
TrimmedForm(s) ==
    LET inked == {k \in 1..Len(s) : s[k] \notin WhiteSpace} IN
    IF inked = {} THEN <<>> ELSE SubSeq(s, Min(inked), Max(inked))

\* the characters the specification allows in a keyword, and in secondary keywords
AllowedKeywordChars == Lower \cup Upper \cup Digits \cup {" ", "-", "_", "(", ")"}
AllowedSecondaryChars == AllowedKeywordChars \cup {","}
ControlChars == {"\n", "\t", "\r"}

Over(chars, s) == \A i \in 1..Len(s) : s[i] \in chars

\* an integer numeral: an optional minus sign and decimal digits, nothing else
IsNumeral(s) ==
    LET digits == IF s # <<>> /\ Head(s) = "-" THEN Tail(s) ELSE s IN
    digits # <<>> /\ Over(Digits, digits)

RECURSIVE Horner(_, _)
Horner(s, acc) == IF s = <<>> THEN acc ELSE Horner(Tail(s), 10 * acc + DigitVal(Head(s)))

NumeralValue(s) == IF Head(s) = "-" THEN 0 - Horner(Tail(s), 0) ELSE Horner(s, 0)

Applied(fn) == call.done /\ call.fn = fn

(***************************************************************************)
(* C1: a request the rate limiter throttles is answered 429 with exactly   *)
(* the limiter's message, and has called neither the provider nor the      *)
(* content store.                                                          *)
(***************************************************************************)
C1_ThrottledIs429 ==
    \A r \in Slots :
        req[r].rateLimitError # <<>> =>
            /\ req[r].pc = "done"
            /\ req[r].response = ErrorResponse(429, req[r].rateLimitError)
            /\ req[r].providerCalls = 0
            /\ req[r].storeCalls = <<>>

C1_Witness ==
    \E r \in Slots :
        /\ req[r].response.status = 429
        /\ req[r].response.error =
              <<"Rate limit exceeded. Try again in ", "2", " seconds.">>

(***************************************************************************)
(* C2: the provider is called only once all seven validators have passed;  *)
(* a form with a failing validator is answered 400 with the message of the *)
(* first validator that fails, without a provider or content-store call.   *)
(***************************************************************************)
C2_ValidationGatesProvider ==
    \A r \in Slots :
        LET failed == FailedValidators(req[r].form) IN
        /\ req[r].providerCalls > 0 => PastForm(r) /\ failed = {}
        /\ PastForm(r) /\ failed # {} =>
              /\ req[r].pc = "done"
              /\ req[r].response =
                    ErrorResponse(400, ValidatorResults(req[r].form)[Min(failed)].error)
              /\ req[r].providerCalls = 0
              /\ req[r].storeCalls = <<>>

C2_Witness ==
    \E r \in Slots :
        /\ req[r].response.status = 400
        /\ req[r].response.error = <<"Invalid tone: ", "professional">>
        /\ req[r].providerCalls = 0

(***************************************************************************)
(* C3: two requests with equal validated values are sent the same prompt.  *)
(***************************************************************************)
C3_PromptFromValidatedOnly ==
    \A r1, r2 \in Slots :
        (/\ req[r1].providerCalls > 0
         /\ req[r2].providerCalls > 0
         /\ req[r1].validated = req[r2].validated)
        => req[r1].prompt = req[r2].prompt

(***************************************************************************)
(* C4: validateKeyword and validateSecondaryKeywords fail on every input   *)
(* whose trimmed form holds a character outside the allowed set, and no    *)
(* value they return holds a line break, tab or other control character.   *)
(***************************************************************************)
C4_RejectsOutsideCharset ==
    /\ Applied("validateKeyword") /\ call.arg # NULL =>
          /\ ~Over(AllowedKeywordChars, TrimmedForm(call.arg)) => ~call.out.ok
          /\ call.out.ok => \A i \in 1..Len(call.out.value) :
                                call.out.value[i] \notin ControlChars
    /\ Applied("validateSecondaryKeywords") /\ call.arg # NULL =>
          /\ ~Over(AllowedSecondaryChars, TrimmedForm(call.arg)) => ~call.out.ok
          /\ call.out.ok => \A i \in 1..Len(call.out.value) :
                                call.out.value[i] \notin ControlChars

(***************************************************************************)
(* C5: validateKeyword returns the trimmed input unchanged when its        *)
(* trimmed form has 1 to 100 allowed characters, and fails when the        *)
(* trimmed form has 0 or more than 100 characters.                         *)
(***************************************************************************)
C5_KeywordTrimmedUnchanged ==
    Applied("validateKeyword") /\ call.arg # NULL =>
        LET t == TrimmedForm(call.arg) IN
        /\ Len(t) >= 1 /\ Len(t) <= 100 /\ Over(AllowedKeywordChars, t) =>
              call.out.ok /\ call.out.value = t
        /\ Len(t) = 0 \/ Len(t) >= 101 => ~call.out.ok

C5_Witness ==
    /\ Applied("validateKeyword")
    /\ Len(call.arg) = 102
    /\ call.out.ok
    /\ Len(call.out.value) = 100

(***************************************************************************)
(* C6: validateWordCount fails on every integer below 500 or above 5000    *)
(* and returns the integer for every integer from 500 to 5000.             *)
(***************************************************************************)
C6_WordCountRange ==
    Applied("validateWordCount") /\ call.arg # NULL /\ IsNumeral(TrimmedForm(call.arg)) =>
        LET n == NumeralValue(TrimmedForm(call.arg)) IN
        /\ n < 500 \/ n > 5000 => ~call.out.ok
        /\ n >= 500 /\ n <= 5000 => call.out.ok /\ call.out.num = n

C6_Witness ==
    /\ Applied("validateWordCount")
    /\ call.arg = <<"5", "0", "0", "0">>
    /\ call.out.ok
    /\ call.out.num = 5000

(***************************************************************************)
(* C7: validateWordCount fails on every input that is not entirely an      *)
(* integer numeral.                                                        *)
(***************************************************************************)
C7_RejectsNonNumeral ==
    Applied("validateWordCount") =>
        (call.arg = NULL \/ ~IsNumeral(TrimmedForm(call.arg)) => ~call.out.ok)

(***************************************************************************)
(* C8: validateSecondaryKeywords accepts a missing value and every input   *)
(* whose trimmed form has at most 500 allowed characters (an empty trimmed *)
(* form included), returning the trimmed form; it fails only on a trimmed  *)
(* form that is longer or holds a disallowed character.                    *)
(***************************************************************************)
C8_SecondaryOptional ==
    Applied("validateSecondaryKeywords") =>
        LET t == IF call.arg = NULL THEN <<>> ELSE TrimmedForm(call.arg) IN
        /\ Len(t) <= 500 /\ Over(AllowedSecondaryChars, t) =>
              call.out.ok /\ call.out.value = t
        /\ ~call.out.ok => Len(t) > 500 \/ ~Over(AllowedSecondaryChars, t)

(***************************************************************************)
(* C9: a finished POST has status 400 exactly when a validator failed, 429 *)
(* exactly when the limiter throttled, 500 exactly when the provider or    *)
(* the content store threw, the text was unparsable or incomplete, or the  *)
(* store reported errors, and 200 with success exactly when articleCreate  *)
(* returned the article without errors.                                    *)
(***************************************************************************)
Unusable(text) ==
    LET m == JsonMatch(CleanedText(text)) IN
    \/ m = <<>>
    \/ ~JSONparse(m).ok
    \/ MissingFields(JSONparse(m).data) # <<>>

Created(r) ==
    /\ req[r].storeCalls # <<>>
    /\ req[r].storeCalls[Len(req[r].storeCalls)] = "articleCreate"
    /\ req[r].userErrors = <<>>
    /\ req[r].thrown = NoThrown
    /\ \E a \in articles :
          /\ LastSegment(a.id) = req[r].response.articleId
          /\ a.title = req[r].response.articleTitle
          /\ a.blogId = req[r].blogId

C9_StatusMapping ==
    \A r \in Slots :
        req[r].pc = "done" /\ req[r].method = "POST" =>
            LET status == req[r].response.status IN
            /\ status \in {200, 400, 429, 500}
            /\ status = 400 <=> PastForm(r) /\ FailedValidators(req[r].form) # {}
            /\ status = 429 <=> req[r].rateLimitError # <<>>
            /\ status = 500 <=>
                  \/ req[r].thrown # NoThrown
                  \/ req[r].text # <<>> /\ Unusable(req[r].text)
                  \/ req[r].userErrors # <<>>
            /\ status = 200 <=> req[r].response.success
            /\ req[r].response.success => Created(r)

C9_Witness ==
    \E r \in Slots :
        /\ req[r].response.status = 200
        /\ req[r].response.success
        /\ req[r].storeCalls = <<"blogs", "blogCreate", "articleCreate">>
        /\ Cardinality(articles) = 1

(***************************************************************************)
(* C10: when the provider call fails the response does not depend on the   *)
(* provider's error: two provider failures get the same response, and the  *)
(* response carries no text of the provider's message.                     *)
(***************************************************************************)
ProviderFailed(r) ==
    /\ req[r].pc = "done"
    /\ req[r].thrown # NoThrown
    /\ req[r].providerCalls > 0
    /\ req[r].storeCalls = <<>>

C10_ProviderFailureGeneric ==
    /\ \A r1, r2 \in Slots :
          ProviderFailed(r1) /\ ProviderFailed(r2) => req[r1].response = req[r2].response
    /\ \A r \in Slots :
          ProviderFailed(r) =>
              \A i \in 1..Len(req[r].response.error) :
                  ~Includes(req[r].thrown.message, req[r].response.error[i])

(***************************************************************************)
(* Vocabulary of the properties about the provider's text                  *)
(***************************************************************************)
\* the provider answered the invocation with a text
Answered(r) == req[r].text # <<>>

\* the region of the text handed to JSON.parse, <<>> when there is none
Region(r) == JsonMatch(CleanedText(req[r].text))

\* the region was read as an object
Parsed(r) ==
    /\ Answered(r)
    /\ LET region == Region(r) IN region # <<>> /\ JSONparse(region).ok

Payload(r) == JSONparse(Region(r)).data

CoreKeys == {"selectedTitle", "articleContent", "metaDescription"}
AuxiliaryKeys ==
    {"competitiveIntelligence", "differentiationStrategy", "eeatSignals",
     "technicalSEOChecklist"}

\* the keys among `keys` that the payload lacks or holds empty
Lacking(r, keys) == LET data == Payload(r) IN {k \in keys : ~Truthy(data[k])}

ReachedStore(r) == req[r].storeCalls # <<>>

FailedBeforeStore(r) ==
    /\ req[r].pc = "done"
    /\ req[r].response.status = 500
    /\ ~req[r].response.success
    /\ req[r].storeCalls = <<>>

(***************************************************************************)
(* C11 (as stated): a parsed payload that holds selectedTitle,             *)
(* articleContent and metaDescription proceeds to the content store,       *)
(* whatever auxiliary field it lacks.                                      *)
(***************************************************************************)
C11_AuxiliaryNeverBlocks ==
    \A r \in Slots :
        Parsed(r) /\ Lacking(r, CoreKeys) = {} => ReachedStore(r)

(***************************************************************************)
(* C11 (amended): a parsed payload proceeds to the content store exactly   *)
(* when it holds the three core fields and the four fields                 *)
(* competitiveIntelligence, differentiationStrategy, eeatSignals and       *)
(* technicalSEOChecklist; the absence of tags, urlSlug or content never    *)
(* makes it fail.                                                          *)
(***************************************************************************)
C11_SevenFieldsGate ==
    \A r \in Slots :
        Parsed(r) =>
            (ReachedStore(r) <=> Lacking(r, CoreKeys \cup AuxiliaryKeys) = {})

C11_Witness ==
    \E r \in Slots :
        /\ Parsed(r)
        /\ Lacking(r, {"tags", "urlSlug", "content"}) = {"tags", "urlSlug", "content"}
        /\ req[r].response.success

NoBrace(text) == Positions(text, "{") = {} /\ Positions(text, "}") = {}

InvalidRegion(r) == Region(r) # <<>> /\ ~JSONparse(Region(r)).ok

RetryEndings ==
    {". This might be a temporary issue. Please try again.",
     ". The AI response format was incorrect. Please try again."}

C13_UnreadableIs500 ==
    \A r \in Slots :
        LET error == req[r].response.error IN
        Answered(r) /\ (NoBrace(req[r].text) \/ InvalidRegion(r)) =>
            /\ FailedBeforeStore(r)
            /\ error[Len(error)] \in RetryEndings
            /\ InvalidRegion(r) =>
                  /\ Len(error) >= 6
                  /\ error[4] = " from AI at position "
                  /\ \A i \in 5..(Len(error) - 1) : error[i] \in Digits

C13_Witness ==
    \E r \in Slots :
        /\ req[r].text = <<"{", mTitle, ",", "}">>
        /\ FailedBeforeStore(r)
        /\ req[r].response.error[5] = "3"

(***************************************************************************)
(* C14: when the provider text holds exactly one JSON object and no brace  *)
(* outside it (the object alone, between a leading fence line and a        *)
(* trailing fence, or with prose around it), extraction yields exactly the *)
(* text of that object, from its opening to its closing brace.             *)
(***************************************************************************)
Braces(text) == Positions(text, "{") \cup Positions(text, "}")

\* the text from its first to its last brace
Braced(text) == SubSeq(text, Min(Braces(text)), Max(Braces(text)))

OneObject(text) ==
    /\ Braces(text) # {}
    /\ text[Min(Braces(text))] = "{"
    /\ text[Max(Braces(text))] = "}"
    /\ JSONparse(Braced(text)).ok

C14_ExtractionExact ==
    Applied("extract") /\ OneObject(call.arg) =>
        call.out.ok /\ call.out.value = Braced(call.arg)

C14_Witness ==
    /\ Applied("extract")
    /\ call.arg = Fence \o <<"j", "s", "\n", "{", mTitle, "}", "\n">> \o Fence
    /\ call.out.ok
    /\ call.out.value = <<"{", mTitle, "}">>

(***************************************************************************)
(* C15: every articleCreate call of the action sends isPublished false,    *)
(* whatever the form and the payload hold, so every article it creates is  *)
(* a draft.                                                                *)
(***************************************************************************)
C15_AlwaysDraft ==
    /\ \A r \in Slots :
          req[r].pc = "articleCreate" =>
              ~ArticleInput(req[r].blogId, req[r].blogData).isPublished
    /\ \A a \in articles : ~a.isPublished

C15_Witness ==
    \E r \in Slots :
        /\ req[r].response.success
        /\ Truthy(req[r].blogData["isPublished"])
        /\ \E a \in articles :
              LastSegment(a.id) = req[r].response.articleId /\ ~a.isPublished

(***************************************************************************)
(* C16: when blogCreate or articleCreate returns a non-empty userErrors    *)
(* array, the action answers 500 without success and its error string      *)
(* carries the first message of that array.                                *)
(***************************************************************************)
C16_UserErrorsFirstMessage ==
    \A r \in Slots :
        req[r].userErrors # <<>> =>
            /\ req[r].pc = "done"
            /\ req[r].response.status = 500
            /\ ~req[r].response.success
            /\ \E i \in 1..Len(req[r].response.error) :
                  <<req[r].response.error[i]>> = req[r].userErrors[1]

(***************************************************************************)
(* C17: on success articleId is the part of the identifier returned by the *)
(* store that follows its last "/": it holds no "/", the identifier ends   *)
(* with it, what precedes it is empty or ends with "/", and an identifier  *)
(* without "/" is returned whole.                                          *)
(***************************************************************************)
C17_BareTrailingSegment ==
    \A r \in Slots :
        req[r].response.success =>
            LET gid == req[r].articleGid
                id == req[r].response.articleId
                k == Len(gid) - Len(id)
            IN  /\ \E a \in articles : a.id = gid
                /\ Positions(id, "/") = {}
                /\ k >= 0
                /\ SubSeq(gid, k + 1, Len(gid)) = id
                /\ k > 0 => gid[k] = "/"
                /\ Positions(gid, "/") = {} => id = gid

C17_Witness ==
    \E r \in Slots :
        /\ req[r].response.success
        /\ req[r].articleGid = <<"gid:", "/", "/", "shopify", "/", "Article", "/", "1">>
        /\ req[r].response.articleId = <<"1">>

(***************************************************************************)
(* C18: the action is not idempotent: every successful invocation has made *)
(* its own provider call and created its own article, so the store holds   *)
(* as many articles as there were successful requests, also when their     *)
(* forms are identical.                                                    *)
(***************************************************************************)
Succeeded == {r \in Slots : req[r].response.success}

C18_EachSuccessCreates ==
    /\ Cardinality(articles) = Cardinality(Succeeded)
    /\ \A r \in Succeeded :
          /\ req[r].providerCalls = 1
          /\ \E a \in articles : a.id = req[r].articleGid
    /\ \A r1, r2 \in Succeeded :
          r1 # r2 => req[r1].articleGid # req[r2].articleGid

C18_Witness ==
    /\ Succeeded = Slots
    /\ req[1].form = req[2].form
    /\ req[1].text = req[2].text
    /\ Cardinality(articles) = 2

(***************************************************************************)
(* C19: for each key, from the check that opens a window until the reset   *)
(* time of that window, at most max checks return null (10 for             *)
(* blog-generation, 2 for research-topics); the further checks before the  *)
(* reset time are throttled.                                               *)
(***************************************************************************)
QuotaOf(action) == IF action = "blog-generation" THEN 10 ELSE 2

C19_AtMostMaxPerWindow ==
    \A k \in LimiterKeys : log.seen[k].grants <= QuotaOf(k[2])

C19_Witness ==
    /\ log.seen[<<"shop-a", "blog-generation">>].grants = 10
    /\ rateLimitStore[<<"shop-a", "blog-generation">>].count = 11
    /\ log.seen[<<"shop-a", "research-topics">>].grants = 2
    /\ rateLimitStore[<<"shop-a", "research-topics">>].count = 3
    /\ log.seen[<<"shop-b", "research-topics">>].grants = 1

(***************************************************************************)
(* C20 (as stated): the window is rolling: for each key, any interval as   *)
(* long as the window holds at most max checks that returned null.         *)
(***************************************************************************)
C20_RollingWindow ==
    \A k \in LimiterKeys : Len(log.seen[k].recent) <= QuotaOf(k[2])

(***************************************************************************)
(* C20 (amended): the window is fixed: it opens at a check and a new one   *)
(* opens at the first check after its reset time, so an interval as long   *)
(* as the window can straddle two windows and hold up to 2 * max - 1       *)
(* checks that returned null (19, respectively 3), and never more.         *)
(***************************************************************************)
C20_FixedWindow ==
    \A k \in LimiterKeys : Len(log.seen[k].recent) <= 2 * QuotaOf(k[2]) - 1

C20_Witness ==
    LET seen == log.seen[<<"shop-a", "blog-generation">>] IN
    /\ Len(seen.recent) = 19
    /\ seen.grants = 10
    /\ seen.recent[19] - seen.recent[1] = 2

(***************************************************************************)
(* C21: within one request the external calls are issued in the order      *)
(* rate-limit check, provider, container lookup, container creation (only  *)
(* after an empty lookup), article creation, each at most once; a call is  *)
(* issued only when every earlier step succeeded, the content store is     *)
(* contacted only for a payload that parsed and holds the required fields, *)
(* and nothing is called after a failure.                                  *)
(***************************************************************************)
IsPrefix(s, t) == Len(s) <= Len(t) /\ SubSeq(t, 1, Len(s)) = s

CallOrders ==
    { <<"rateLimitCheck", "generateContent", "blogs", "articleCreate">>,
      <<"rateLimitCheck", "generateContent", "blogs", "blogCreate", "articleCreate">> }

Called(r, name) == \E i \in 1..Len(req[r].calls) : req[r].calls[i] = name

Failed(r) ==
    \/ req[r].rateLimitError # <<>>
    \/ req[r].thrown # NoThrown
    \/ req[r].userErrors # <<>>
    \/ req[r].response.status \in {400, 405, 429, 500}

C21_CallsInOrderOnce ==
    \A r \in Slots :
        /\ \E order \in CallOrders : IsPrefix(req[r].calls, order)
        /\ Called(r, "generateContent") =>
              req[r].rateLimitError = <<>> /\ FailedValidators(req[r].form) = {}
        /\ Called(r, "blogs") =>
              /\ Parsed(r)
              /\ Lacking(r, CoreKeys \cup AuxiliaryKeys) = {}
        /\ Called(r, "blogCreate") => req[r].blogId = <<>> \/ Called(r, "articleCreate")
        /\ Called(r, "articleCreate") => req[r].blogId # <<>>
        /\ Failed(r) => req[r].pc = "done"

C21_Witness ==
    \E r \in Slots :
        /\ req[r].calls =
              <<"rateLimitCheck", "generateContent", "blogs", "blogCreate", "articleCreate">>
        /\ req[r].response.success

(***************************************************************************)
(* C22: the blogs query decides alone whether a blog is created.  When it  *)
(* lists a blog the article goes to the first one and no blog is created;  *)
(* when it lists none, one blog titled "News" is created and the article   *)
(* goes to the id that creation returned; when that creation reports       *)
(* userErrors no article is created.  A request creates at most one        *)
(* article.                                                                *)
(***************************************************************************)
C22_FindOrCreate ==
    [][\A r \in Slots :
         /\ (req[r].pc = "lookup" /\ req'[r].pc \in {"blogCreate", "articleCreate"}) =>
               /\ blogs' = blogs
               /\ IF Len(blogs) > 0
                  THEN /\ req'[r].pc = "articleCreate"
                       /\ req'[r].blogId = blogs[1]
                       /\ req'[r].blogInput = <<>>
                  ELSE /\ req'[r].pc = "blogCreate"
                       /\ req'[r].blogInput.title = <<"News">>
         /\ (req[r].pc = "blogCreate" /\ req'[r].pc = "articleCreate") =>
               /\ Len(blogs') = Len(blogs) + 1
               /\ req'[r].blogId = blogs'[Len(blogs')]
               /\ articles' = articles
         /\ (req[r].pc = "blogCreate" /\ req'[r].pc = "done") =>
               /\ blogs' = blogs
               /\ articles' = articles
               /\ ~ req'[r].response.success
               /\ req'[r].calls = req[r].calls
         /\ (req[r].pc # "blogCreate" /\ req'[r].pc # "idle") =>
               (blogs' # blogs => \E q \in Slots \ {r} : req[q].pc = "blogCreate")
         /\ (req[r].pc = "articleCreate" /\ req'[r].response.success) =>
               \E a \in articles' \ articles :
                   /\ articles' = articles \cup {a}
                   /\ a.blogId = req[r].blogId
    ]_vars

C22_Witness ==
    \E r \in Slots :
        /\ req[r].response.success
        /\ req[r].blogInput = BlogInput
        /\ blogs = << req[r].blogId >>
        /\ \E a \in articles : articles = {a} /\ a.blogId = req[r].blogId

(***************************************************************************)
(* C23: two requests of a shop without a blog can both see the empty       *)
(* lookup and both create a blog.  In every state with two blogs each      *)
(* request that created one holds the id of its own blog, different from   *)
(* the other's, and has created at most one article (exactly one when it   *)
(* succeeded), attached to its own blog.                                   *)
(***************************************************************************)
Range(f) == {f[i] : i \in DOMAIN f}

ArticlesOf(r) == {a \in articles : a.id = req[r].articleGid}

C23_OwnBlogWhenBothCreate ==
    Len(blogs) = 2 =>
        /\ \A r \in Slots : Called(r, "blogCreate") /\ req[r].blogId \in Range(blogs)
        /\ \A r, q \in Slots : r # q => req[r].blogId # req[q].blogId
        /\ \A r \in Slots :
              /\ Cardinality(ArticlesOf(r)) = IF req[r].response.success THEN 1 ELSE 0
              /\ \A a \in ArticlesOf(r) : a.blogId = req[r].blogId
        /\ articles = UNION {ArticlesOf(r) : r \in Slots}

C23_Witness ==
    /\ Len(blogs) = 2
    /\ blogs[1] # blogs[2]
    /\ Cardinality(articles) = 2
    /\ \A r \in Slots : req[r].response.success
    /\ {a.blogId : a \in articles} = Range(blogs)

(***************************************************************************)
(* C24: when the cleaned text ends with a complete JSON object and a       *)
(* brace-delimited fragment stands before it, the region handed to         *)
(* JSON.parse is the final object alone.                                   *)
(***************************************************************************)
\* the positions where a complete JSON object that ends the text begins
FinalObjects(t) ==
    {k \in Positions(t, "{") :
        /\ t[Len(t)] = "}"
        /\ JSONparse(SubSeq(t, k, Len(t))).ok}

\* a "{" and a later "}" stand before position k
FragmentBefore(t, k) ==
    \E i, j \in 1..(k - 1) : i < j /\ t[i] = "{" /\ t[j] = "}"

C24_FinalObjectOnly ==
    Applied("extract") =>
        LET t == CleanedText(call.arg) IN
        \A k \in FinalObjects(t) :
            FragmentBefore(t, k) =>
                call.out.ok /\ call.out.value = SubSeq(t, k, Len(t))

(***************************************************************************)
(* C26: the region handed to JSON.parse is the part of the provider text   *)
(* from its first "{" to its last "}" whenever a "}" follows the first     *)
(* "{", and extraction fails otherwise: the two patterns and the removal   *)
(* of the fences together are one greedy match on the text as received.    *)
(***************************************************************************)
HasRegion(t) ==
    \E i, j \in 1..Len(t) :
        /\ i < j /\ t[i] = "{" /\ t[j] = "}"
        /\ \A h \in 1..(i - 1) : t[h] # "{"

GreedyRegion(t) ==
    LET i == CHOOSE h \in 1..Len(t) : t[h] = "{" /\ \A g \in 1..(h - 1) : t[g] # "{"
        j == CHOOSE h \in 1..Len(t) : t[h] = "}" /\ \A g \in (h + 1)..Len(t) : t[g] # "}"
    IN  SubSeq(t, i, j)

C26_GreedyOnRawText ==
    Applied("extract") =>
        IF HasRegion(call.arg)
        THEN /\ call.out.ok
             /\ call.out.value = GreedyRegion(call.arg)
             /\ call.out.value = MatchAnywhere(call.arg)
        ELSE /\ ~call.out.ok
             /\ MatchAnywhere(call.arg) = <<>>

C26_Witness ==
    /\ Applied("extract")
    /\ call.arg = Fence \o <<"j", "s", "\n", "{", "}", "}", "\n">> \o Fence
    /\ MatchAnchored(call.arg) = <<>>
    /\ call.out.ok
    /\ call.out.value = <<"{", "}", "}">>

(***************************************************************************)
(* C25: without a urlSlug (absent or empty) the handle is derived from     *)
(* selectedTitle: it holds the title's letters and digits, lower-cased and *)
(* in order, with one hyphen for every run of other characters that stands *)
(* between two of them; it holds only a-z, 0-9 and hyphens, no two         *)
(* adjacent hyphens, no hyphen at either end, and deriving again from it   *)
(* returns it.  With a non-empty urlSlug the handle is that value.         *)
(***************************************************************************)
SlugOf(title) == articleSlug([EmptyObject EXCEPT !["selectedTitle"] = JString(title)])

\* the letters and digits of a text, lower-cased, in order
RECURSIVE Alnums(_)
Alnums(s) ==
    IF s = <<>> THEN <<>>
    ELSE IF LowerChar(Head(s)) \in Lower \cup Digits
         THEN <<LowerChar(Head(s))>> \o Alnums(Tail(s))
         ELSE Alnums(Tail(s))

\* the runs of other characters that stand between two letters or digits of
\* the title, counted by their first character
Gaps(s) ==
    Cardinality({i \in 1..Len(s) :
        /\ LowerChar(s[i]) \notin Lower \cup Digits
        /\ i > 1 /\ LowerChar(s[i - 1]) \in Lower \cup Digits
        /\ \E j \in (i + 1)..Len(s) : LowerChar(s[j]) \in Lower \cup Digits})

C25_HandleDerivation ==
    Applied("articleSlug") =>
        LET title == call.arg["selectedTitle"].s
            slug == call.arg["urlSlug"]
            h == call.out.value
        IN  IF slug.t = "string" /\ slug.s # <<>>
            THEN h = slug.s
            ELSE /\ \A i \in 1..Len(h) : h[i] \in Lower \cup Digits \cup {"-"}
                 /\ \A i \in 1..(Len(h) - 1) : ~(h[i] = "-" /\ h[i + 1] = "-")
                 /\ h # <<>> => h[1] # "-" /\ h[Len(h)] # "-"
                 /\ Alnums(h) = Alnums(title)
                 /\ Len(h) = Len(Alnums(title)) + Gaps(title)
                 /\ SlugOf(h) = h

C25_Witness ==
    /\ Applied("articleSlug")
    /\ call.arg["urlSlug"] = Undefined
    /\ call.arg["selectedTitle"].s = <<"B", " ", "!", "7">>
    /\ call.out.value = <<"b", "-", "7">>

(***************************************************************************)
(* C27: every POST that reaches the limiter is counted on the shop's       *)
(* blog-generation record before its form is read, whatever answer it gets *)
(* later; a request of another method is not counted.  The count of a shop *)
(* is the number of its POST requests, so the eleventh is throttled even   *)
(* when none of the ten before it created an article.                      *)
(***************************************************************************)
\* the POST requests of a shop that have passed rateLimitCheck
Counted(shop) ==
    log.posts[shop]
    + Cardinality({r \in Slots :
          /\ req[r].method = "POST"
          /\ req[r].shop = shop
          /\ req[r].pc \notin {"idle", "auth"}})

C27_QuotaBeforeValidation ==
    /\ \A shop \in Shops :
          rateLimitStore[<<shop, "blog-generation">>].count = Counted(shop)
    /\ \A r \in Slots :
          /\ req[r].pc = "form" => req[r].form = Idle.form /\ Counted(req[r].shop) >= 1
          /\ req[r].response.status = 429 <=>
                (req[r].pc = "done" /\ req[r].method = "POST"
                 /\ Counted(req[r].shop) > BLOG_GENERATION_MAX)

C27_Witness ==
    /\ req[1].response.status = 429
    /\ req[1].shop = "shop-a"
    /\ log.posts["shop-a"] = BLOG_GENERATION_MAX
    /\ log.answered > BLOG_GENERATION_MAX
    /\ log.statuses = {400, 405, 500}
    /\ articles = {}

(***************************************************************************)
(* C28: a submission whose four dropdown fields hold option values of the  *)
(* generator form, and whose keyword, secondary keywords and word count    *)
(* pass their validators, is not answered 400.                             *)
(***************************************************************************)
FromDropdowns(form) ==
    /\ \A f \in DOMAIN FormOptions : form[f] \in FormOptions[f]
    /\ validateKeyword(form.keyword).ok
    /\ validateSecondaryKeywords(form.secondaryKeywords).ok
    /\ validateWordCount(form.wordCount).ok

C28_DropdownsAccepted ==
    \A r \in Slots :
        (req[r].pc = "done" /\ req[r].calls # <<>> /\ req[r].rateLimitError = <<>>
         /\ FromDropdowns(req[r].form))
            => req[r].response.status # 400

(***************************************************************************)
(* C29: a research-topics action that ends in an error response leaves    *)
(* the stored topics of its shop, and of every other shop, as they were.   *)
(* Stated for an action that runs alone.                                   *)
(***************************************************************************)
RowsOf(shop) == {t \in db.topics : t.shop = shop}

Alone(r) == \A q \in Slots \ {r} : job[q].pc = "idle"

C29_ErrorKeepsOldTopics ==
    \A r \in Slots :
        (job[r].pc = "done" /\ ~job[r].success /\ Alone(r))
            => db.topics = SeededDb.topics

(***************************************************************************)
(* C30: once every research-topics action of a shop that was started has   *)
(* completed successfully, the ids listed in the shop's cache row are      *)
(* exactly the ids of the shop's stored topics.                            *)
(***************************************************************************)
\* the ids a cache text lists
Listed(text) ==
    IF text = NULL THEN {}
    ELSE {text[i] : i \in 1..Len(text)} \cap Range(TopicIds)

AllSucceededFor(shop) ==
    /\ \E r \in Slots : job[r].pc = "done"
    /\ \A r \in Slots :
          \/ job[r].pc = "idle"
          \/ job[r].pc = "done" /\ job[r].success /\ job[r].shop = shop

C30_CacheListsStoredRows ==
    \A shop \in Shops :
        AllSucceededFor(shop) => Listed(db.cache[shop]) = {t.id : t \in RowsOf(shop)}

====
